---- MODULE Spec2Model ----
(***************************************************************************)
(* A model of the workflow core of ai-manager-system: the project status   *)
(* machine (app/services/project_service.py), the other writers of a       *)
(* project's status (app/api/projects.py, app/wechat/handlers.py) and the  *)
(* rule engine (app/services/workflow_service.py).                         *)
(*                                                                         *)
(* project_service.py declares smart_status_transition with "def" although *)
(* its body awaits; the model follows the body statement by statement, the *)
(* awaited calls being the places where another request may run.           *)
(***************************************************************************)
EXTENDS Integers, Sequences, FiniteSets, TLC

VARIABLES
    projects,     \* the committed projects table: id -> row
    statusLog,    \* the committed project_status_logs table, in insertion order
    notified,     \* number of notification-history rows written (_log_notification)
    now,          \* logical clock: the value datetime.utcnow() returns next
    result,       \* what the last handler call returned or raised
    sess,         \* the open ORM sessions of in-flight smart_status_transition calls
    rules,        \* WorkflowEngine.rules
    tasks,        \* the committed tasks table, in insertion order
    disp,         \* the trigger_workflow call in flight, or the last one's return
    jobs,         \* TaskScheduler.registered_jobs
    assign,       \* the last least-workload selection: its inputs and its choice
    sent,         \* the _send_wechat_message calls of the last handler call
    sched,        \* TaskScheduler: is_running, the clock and the APScheduler job store
    chat          \* MessageHandler.pending_projects and the projects made from it

vars == <<projects, statusLog, notified, now, result, sess, rules, tasks, disp, jobs, assign, sent, sched, chat>>

----------------------------------------------------------------------------
(* Bounds of the model *)

MaxLog == 3
MaxClock == 3
MaxRegistered == 2
MaxCandidates == 3
MaxWorkload == 2

----------------------------------------------------------------------------
(* app/__init__.py: StatusEnum, RoleEnum *)

PENDING_QUOTE == "PENDING_QUOTE"
QUOTED == "QUOTED"
CONFIRMED == "CONFIRMED"
DEPOSIT_PAID == "DEPOSIT_PAID"
IN_DESIGN == "IN_DESIGN"
PENDING_APPROVAL == "PENDING_APPROVAL"
APPROVED == "APPROVED"
IN_PRODUCTION == "IN_PRODUCTION"
COMPLETED == "COMPLETED"
PAID == "PAID"
ARCHIVED == "ARCHIVED"

StatusEnum ==
    {PENDING_QUOTE, QUOTED, CONFIRMED, DEPOSIT_PAID, IN_DESIGN, PENDING_APPROVAL,
     APPROVED, IN_PRODUCTION, COMPLETED, PAID, ARCHIVED}

RoleEnum == {"admin", "designer", "finance", "sales"}

\* None, for a status, an id or a timestamp
NoStatus == "NONE"
NoId == 0
NoTime == 0

----------------------------------------------------------------------------
(* The users table: an ordinary user, and one user for each way of being   *)
(* privileged (role admin, is_admin). All are active.                      *)

Users ==
    {[id |-> 1, role |-> "designer", is_admin |-> FALSE],
     [id |-> 2, role |-> "admin",    is_admin |-> FALSE],
     [id |-> 3, role |-> "sales",    is_admin |-> TRUE]}

UserById(id) == CHOOSE u \in Users : u.id = id

ProjectIds == {1}

\* the row a project is created with (api/projects.py create_project)
NewProject(creator, designer) ==
    [status |-> PENDING_QUOTE, started_at |-> NoTime, completed_at |-> NoTime,
     deposit_paid |-> FALSE, final_paid |-> FALSE, updated_at |-> NoTime,
     creator_id |-> creator, designer_id |-> designer, sales_id |-> NoId]

\* ProjectStatusLog(...)
ProjectStatusLog(pid, uid, from, to, reason) ==
    [project_id |-> pid, user_id |-> uid, from_status |-> from, to_status |-> to,
     change_reason |-> reason]

----------------------------------------------------------------------------
(* ProjectService: the status machine *)

\* valid_transitions.get(old_status, [])
TransitionTable(old) ==
    CASE old = PENDING_QUOTE    -> {QUOTED, ARCHIVED}
      [] old = QUOTED           -> {CONFIRMED, PENDING_QUOTE}
      [] old = CONFIRMED        -> {DEPOSIT_PAID, QUOTED}
      [] old = DEPOSIT_PAID     -> {IN_DESIGN}
      [] old = IN_DESIGN        -> {PENDING_APPROVAL}
      [] old = PENDING_APPROVAL -> {APPROVED, IN_DESIGN}
      [] old = APPROVED         -> {IN_PRODUCTION}
      [] old = IN_PRODUCTION    -> {COMPLETED}
      [] old = COMPLETED        -> {PAID, ARCHIVED}
      [] old = PAID             -> {ARCHIVED}
      [] OTHER                  -> {}

\* operator.is_admin or operator.role == RoleEnum.ADMIN
MutHasOverride(operator) == operator.is_admin

HasOverride(operator) == operator.is_admin \/ operator.role = "admin"

\* _validate_status_transition: TRUE when it returns, FALSE when it raises
MutValidateAnyStatus(old, new, operator) ==
    new \in TransitionTable(old) \/ new \in StatusEnum

ValidateStatusTransition(old, new, operator) ==
    new \in TransitionTable(old) \/ HasOverride(operator)

\* _handle_status_side_effects: the row after the effects, and the effects list
HandleStatusSideEffects(row, new, t) ==
    LET setStart == new = IN_DESIGN /\ row.started_at = NoTime
        setDone  == new = COMPLETED /\ row.completed_at = NoTime
        r1 == IF setStart THEN [row EXCEPT !.started_at = t] ELSE row
        r2 == IF setDone THEN [r1 EXCEPT !.completed_at = t] ELSE r1
        r3 == IF new = DEPOSIT_PAID THEN [r2 EXCEPT !.deposit_paid = TRUE] ELSE r2
        r4 == IF new = PAID THEN [r3 EXCEPT !.final_paid = TRUE] ELSE r3
    IN  [row |-> r4,
         effects |-> (IF setStart THEN <<"set_started_at">> ELSE <<>>)
                  \o (IF setDone THEN <<"set_completed_at">> ELSE <<>>)
                  \o (IF new = DEPOSIT_PAID THEN <<"mark_deposit_paid">> ELSE <<>>)
                  \o (IF new = PAID THEN <<"mark_final_paid">> ELSE <<>>)]

\* _log_status_change
MutLogStatusChange(pid, old, new, operator) ==
    <<ProjectStatusLog(pid, operator.id, new, new, "status_transition")>>

LogStatusChange(pid, old, new, operator) ==
    <<ProjectStatusLog(pid, operator.id, old, new, "status_transition")>>

\* NotificationService._get_project_stakeholders(project, exclude_user_id)
GetProjectStakeholders(row, exclude) ==
    {row.creator_id, row.designer_id, row.sales_id} \ {NoId, exclude}

\* the outcome record of a handler call
Outcome(op, pid, operator, old, new, ok, error, effects) ==
    [op |-> op, project_id |-> pid, actor |-> operator.id, old_status |-> old,
     new_status |-> new, success |-> ok, error |-> error, side_effects |-> effects]

NoOutcome ==
    [op |-> "none", project_id |-> NoId, actor |-> NoId, old_status |-> NoStatus,
     new_status |-> NoStatus, success |-> FALSE, error |-> "", side_effects |-> <<>>]

\* what the last call handed to _send_wechat_message: the recipients, those
\* whose delivery failed, the number of calls, and the source of the text
NoFanout == [to |-> {}, failed |-> {}, calls |-> 0, text |-> "none"]

\* AIService defines no generate_status_update: the call raises AttributeError,
\* which send_status_change_notification catches, and the fixed text is used
AiDescription == "fallback"

\* a fan-out that gives up at the first failure of the text generation or of a
\* delivery
MutStatusNotificationRaises(row, operator, failed) ==
    LET recipients == GetProjectStakeholders(row, operator.id)
    IN  [raised |-> TRUE,
         sent   |-> [to |-> recipients, failed |-> failed \cap recipients,
                     calls |-> Cardinality(recipients), text |-> AiDescription],
         logged |-> 0]

\* send_status_change_notification: the text, one _send_wechat_message per
\* stakeholder (a failed delivery is caught there and returns False), then one
\* history row per stakeholder; every modelled user has a wechat_userid
SendStatusChangeNotification(row, operator, failed) ==
    LET recipients == GetProjectStakeholders(row, operator.id)
    IN  [raised |-> FALSE,
         sent   |-> [to |-> recipients, failed |-> failed \cap recipients,
                     calls |-> Cardinality(recipients), text |-> AiDescription],
         logged |-> Cardinality(recipients)]

\* smart_status_transition, the whole call with no other request in between;
\* an exception of the fan-out leaves the call before its commit
SmartStatusTransition(pid, new, operator) ==
    LET row == projects[pid]
        old == row.status
    IN  IF ~ValidateStatusTransition(old, new, operator)
        THEN /\ result' = Outcome("smart_status_transition", pid, operator, old, new,
                                  FALSE, "IllegalTransition", <<>>)
             /\ sent' = NoFanout
             /\ UNCHANGED <<projects, statusLog, notified, now>>
        ELSE LET written == [row EXCEPT !.status = new, !.updated_at = now]
                 fx == HandleStatusSideEffects(written, new, now)
             IN  /\ Len(statusLog) < MaxLog
                 /\ now < MaxClock
                 /\ \E failed \in SUBSET GetProjectStakeholders(fx.row, operator.id) :
                      LET n == SendStatusChangeNotification(fx.row, operator, failed)
                      IN  /\ sent' = n.sent
                          /\ IF n.raised
                             THEN /\ result' = Outcome("smart_status_transition", pid,
                                                       operator, old, new, FALSE,
                                                       "NotificationFailure", <<>>)
                                  /\ UNCHANGED <<projects, statusLog, notified, now>>
                             ELSE /\ projects' = [projects EXCEPT ![pid] = fx.row]
                                  /\ statusLog' = statusLog
                                        \o LogStatusChange(pid, old, new, operator)
                                  /\ notified' = notified + n.logged
                                  /\ now' = now + 1
                                  /\ result' = Outcome("smart_status_transition", pid,
                                                       operator, old, new, TRUE, "",
                                                       fx.effects)

Transition ==
    /\ \E pid \in ProjectIds, new \in StatusEnum, operator \in Users :
            SmartStatusTransition(pid, new, operator)
    /\ UNCHANGED <<sess, rules, tasks, disp, jobs, assign, sched, chat>>

----------------------------------------------------------------------------
(* The other handlers that write a project's status *)

\* permissions.py: ROLE_PERMISSIONS, PermissionChecker.has_permission
RolePermissions(role) ==
    CASE role = "admin"    -> {"project:update", "project:delete", "project:status_change"}
      [] role = "designer" -> {"project:update", "project:status_change"}
      [] role = "sales"    -> {"project:update"}
      [] OTHER             -> {}

CheckPermission(user, permission) ==
    user.is_admin \/ permission \in RolePermissions(user.role)

\* permissions.py: ResourcePermission.can_access_project
CanAccessProject(user, row) ==
    \/ user.role = "admin" \/ user.is_admin
    \/ row.creator_id = user.id
    \/ row.designer_id = user.id
    \/ row.sales_id = user.id
    \/ user.role = "finance"

\* permissions.py: ResourcePermission.can_modify_project, and
\* wechat/handlers.py: _can_modify_project
CanModifyProject(user, row) ==
    \/ user.role = "admin" \/ user.is_admin
    \/ row.creator_id = user.id
    \/ row.designer_id = user.id

\* the timestamps the API and the chat handler set: if / elif
UpdateTimestamps(row, new, t) ==
    IF new = IN_DESIGN /\ row.started_at = NoTime
    THEN [row EXCEPT !.started_at = t]
    ELSE IF new = COMPLETED /\ row.completed_at = NoTime
         THEN [row EXCEPT !.completed_at = t]
         ELSE row

Denied(op, pid, user, old, new, error) ==
    /\ result' = Outcome(op, pid, user, old, new, FALSE, error, <<>>)
    /\ UNCHANGED <<projects, statusLog, notified, now>>

\* api/projects.py: update_project_status (PATCH /{project_id}/status)
UpdateProjectStatus(pid, new, user) ==
    LET row == projects[pid]
        old == row.status
    IN  IF ~CheckPermission(user, "project:status_change") /\ ~CanAccessProject(user, row)
        THEN Denied("update_project_status", pid, user, old, new, "403")
        ELSE IF new \notin StatusEnum
        THEN Denied("update_project_status", pid, user, old, new, "400")
        ELSE /\ Len(statusLog) < MaxLog
             /\ now < MaxClock
             /\ projects' = [projects EXCEPT ![pid] =
                    UpdateTimestamps([row EXCEPT !.status = new, !.updated_at = now],
                                     new, now)]
             /\ statusLog' = Append(statusLog,
                    ProjectStatusLog(pid, user.id, old, new, "api_status_update"))
             /\ now' = now + 1
             /\ result' = Outcome("update_project_status", pid, user, old, new,
                                  TRUE, "", <<>>)
             /\ UNCHANGED notified

\* the patch of PUT /{project_id}: the fields of the row that the model holds
Unset == "UNSET"
KeepDesigner == -1

\* api/projects.py: update_project (PUT /{project_id})
UpdateProject(pid, newStatus, newDesigner, user) ==
    LET row == projects[pid]
        old == row.status
        r1 == IF newStatus = Unset THEN row ELSE [row EXCEPT !.status = newStatus]
        r2 == IF newDesigner = KeepDesigner THEN r1
              ELSE [r1 EXCEPT !.designer_id = newDesigner]
        logged == newStatus # Unset /\ newStatus # old
    IN  IF ~CanModifyProject(user, row)
        THEN Denied("update_project", pid, user, old, newStatus, "403")
        ELSE /\ logged => Len(statusLog) < MaxLog
             /\ now < MaxClock
             /\ projects' = [projects EXCEPT ![pid] = [r2 EXCEPT !.updated_at = now]]
             /\ statusLog' = IF logged
                    THEN Append(statusLog,
                            ProjectStatusLog(pid, user.id, old, newStatus, "project_update"))
                    ELSE statusLog
             /\ now' = now + 1
             /\ result' = Outcome("update_project", pid, user, old, newStatus,
                                  TRUE, "", <<>>)
             /\ UNCHANGED notified

\* a delete_project that deletes the row: the cascade of Project.status_logs
\* then deletes the project's records
MutDeleteProjectPurges(pid, user) ==
    LET row == projects[pid]
        old == row.status
        written == [row EXCEPT !.status = ARCHIVED, !.updated_at = now]
    IN  IF ~CheckPermission(user, "project:delete")
        THEN Denied("delete_project", pid, user, old, ARCHIVED, "403")
        ELSE IF old \in {IN_DESIGN, IN_PRODUCTION}
        THEN Denied("delete_project", pid, user, old, ARCHIVED, "400")
        ELSE /\ Len(statusLog) < MaxLog
             /\ now < MaxClock
             /\ projects' = [projects EXCEPT ![pid] = written]
             /\ statusLog' = SelectSeq(statusLog, LAMBDA rec : rec.project_id # pid)
             /\ now' = now + 1
             /\ result' = Outcome("delete_project", pid, user, old, ARCHIVED,
                                  TRUE, "", <<>>)
             /\ UNCHANGED notified

\* api/projects.py: delete_project (the record is built after the status is written)
DeleteProject(pid, user) ==
    LET row == projects[pid]
        old == row.status
        written == [row EXCEPT !.status = ARCHIVED, !.updated_at = now]
    IN  IF ~CheckPermission(user, "project:delete")
        THEN Denied("delete_project", pid, user, old, ARCHIVED, "403")
        ELSE IF old \in {IN_DESIGN, IN_PRODUCTION}
        THEN Denied("delete_project", pid, user, old, ARCHIVED, "400")
        ELSE /\ Len(statusLog) < MaxLog
             /\ now < MaxClock
             /\ projects' = [projects EXCEPT ![pid] = written]
             /\ statusLog' = Append(statusLog,
                    ProjectStatusLog(pid, user.id, written.status, ARCHIVED, "deleted"))
             /\ now' = now + 1
             /\ result' = Outcome("delete_project", pid, user, old, ARCHIVED,
                                  TRUE, "", <<>>)
             /\ UNCHANGED notified

\* wechat/handlers.py: handle_update_status (no ProjectStatusLog is written)
HandleUpdateStatus(pid, new, user) ==
    LET row == projects[pid]
        old == row.status
    IN  IF new \notin StatusEnum
        THEN Denied("handle_update_status", pid, user, old, new, "invalid_status")
        ELSE IF ~CanModifyProject(user, row)
        THEN Denied("handle_update_status", pid, user, old, new, "no_permission")
        ELSE /\ now < MaxClock
             /\ projects' = [projects EXCEPT ![pid] =
                    UpdateTimestamps([row EXCEPT !.status = new, !.updated_at = now],
                                     new, now)]
             /\ now' = now + 1
             /\ result' = Outcome("handle_update_status", pid, user, old, new,
                                  TRUE, "", <<>>)
             /\ UNCHANGED <<statusLog, notified>>

\* the statuses and patches the requests of the model carry
RequestStatuses == {QUOTED, DEPOSIT_PAID, IN_DESIGN, COMPLETED, ARCHIVED}

RequestPatches ==
    {<<st, KeepDesigner>> : st \in RequestStatuses} \cup {<<Unset, d>> : d \in {NoId, 1}}

ApiUpdateStatus ==
    /\ \E pid \in ProjectIds, new \in RequestStatuses, user \in Users :
            UpdateProjectStatus(pid, new, user)
    /\ sent' = NoFanout
    /\ UNCHANGED <<sess, rules, tasks, disp, jobs, assign, sched, chat>>

ApiUpdateProject ==
    /\ \E pid \in ProjectIds, patch \in RequestPatches, user \in Users :
            UpdateProject(pid, patch[1], patch[2], user)
    /\ sent' = NoFanout
    /\ UNCHANGED <<sess, rules, tasks, disp, jobs, assign, sched, chat>>

ApiDeleteProject ==
    /\ \E pid \in ProjectIds, user \in Users : DeleteProject(pid, user)
    /\ sent' = NoFanout
    /\ UNCHANGED <<sess, rules, tasks, disp, jobs, assign, sched, chat>>

ChatUpdateStatus ==
    /\ \E pid \in ProjectIds, new \in RequestStatuses, user \in Users :
            HandleUpdateStatus(pid, new, user)
    /\ sent' = NoFanout
    /\ UNCHANGED <<sess, rules, tasks, disp, jobs, assign, sched, chat>>

----------------------------------------------------------------------------
(* smart_status_transition as the database sees it: each call has its own  *)
(* Session (database.py: SessionLocal, one per request). The call loads    *)
(* the committed row, validates and writes its own copy (lines 88-105),    *)
(* and the row reaches the database at the commit (lines 108-110). The     *)
(* code takes no lock, no SELECT FOR UPDATE and no version check, so       *)
(* another call may load the row between the two.                          *)

Requests == {1, 2}

IdleSession ==
    [pc |-> "idle", project_id |-> NoId, operator |-> NoId, new_status |-> NoStatus,
     loaded |-> NewProject(NoId, NoId), row |-> NewProject(NoId, NoId),
     effects |-> <<>>]

InFlight == {r \in Requests : sess[r].pc = "written"}

\* lines 88-105: query, old_status, validate, write the session's copy
BeginTransition(r, pid, new, operator) ==
    LET row == projects[pid]
        old == row.status
    IN  /\ sess[r].pc = "idle"
        /\ IF ~ValidateStatusTransition(old, new, operator)
           THEN /\ result' = Outcome("smart_status_transition", pid, operator, old, new,
                                     FALSE, "IllegalTransition", <<>>)
                /\ sent' = NoFanout
                /\ UNCHANGED <<sess, now>>
           ELSE LET written == [row EXCEPT !.status = new, !.updated_at = now]
                    fx == HandleStatusSideEffects(written, new, now)
                IN  /\ Len(statusLog) + Cardinality(InFlight) < MaxLog
                    /\ now < MaxClock
                    /\ sess' = [sess EXCEPT ![r] =
                          [pc |-> "written", project_id |-> pid, operator |-> operator.id,
                           new_status |-> new, loaded |-> row, row |-> fx.row,
                           effects |-> fx.effects]]
                    /\ now' = now + 1
                    /\ UNCHANGED <<result, sent>>
        /\ UNCHANGED <<projects, statusLog, notified>>

\* the UPDATE a flush emits: the columns this session changed, and no other
FlushRow(committed, loaded, local) ==
    [f \in DOMAIN committed |-> IF local[f] # loaded[f] THEN local[f] ELSE committed[f]]

\* lines 108-110: notifications, commit
CommitTransition(r) ==
    LET s == sess[r]
        pid == s.project_id
        operator == UserById(s.operator)
    IN  /\ s.pc = "written"
        /\ projects' = [projects EXCEPT ![pid] = FlushRow(projects[pid], s.loaded, s.row)]
        /\ statusLog' = statusLog
                \o LogStatusChange(pid, s.loaded.status, s.new_status, operator)
        /\ \E failed \in SUBSET GetProjectStakeholders(s.row, s.operator) :
              LET n == SendStatusChangeNotification(s.row, operator, failed)
              IN  /\ sent' = n.sent
                  /\ notified' = notified + n.logged
        /\ result' = Outcome("smart_status_transition", pid, operator, s.loaded.status,
                             s.new_status, TRUE, "", s.effects)
        /\ sess' = [sess EXCEPT ![r] = IdleSession]
        /\ UNCHANGED now

Begin ==
    /\ \E r \in Requests, pid \in ProjectIds, new \in StatusEnum, operator \in Users :
            BeginTransition(r, pid, new, operator)
    /\ UNCHANGED <<rules, tasks, disp, jobs, assign, sched, chat>>

Commit ==
    /\ \E r \in Requests : CommitTransition(r)
    /\ UNCHANGED <<rules, tasks, disp, jobs, assign, sched, chat>>

----------------------------------------------------------------------------
(* WorkflowEngine: rules, trigger events, matching *)

TriggerType == {"time_based", "status_change", "data_condition", "manual"}

ActionType ==
    {"send_notification", "update_status", "create_task", "assign_user",
     "run_ai_analysis", "custom_function"}

\* one entry of a trigger_conditions dict (True is the string "True")
Cond(key, value) == [key |-> key, value |-> value]

\* WorkflowRule(...)
WorkflowRule(id, type, conditions, actions, active, priority) ==
    [id |-> id, trigger_type |-> type, trigger_conditions |-> conditions,
     actions |-> actions, is_active |-> active, priority |-> priority]

\* _init_default_rules
DefaultRules ==
    << WorkflowRule("auto_assign_designer", "status_change",
            <<Cond("new_status", PENDING_QUOTE), Cond("designer_not_assigned", "True")>>,
            << [type |-> "assign_user", role |-> "designer", strategy |-> "least_workload"],
               [type |-> "send_notification", template |-> "project_assigned",
                recipients |-> <<"assigned_designer">>] >>,
            TRUE, 1),
       WorkflowRule("create_design_tasks", "status_change",
            <<Cond("new_status", IN_DESIGN)>>,
            << [type |-> "create_task", task_template |-> "design_workflow"],
               [type |-> "run_ai_analysis", analysis_type |-> "design_requirements"] >>,
            TRUE, 1),
       WorkflowRule("overdue_reminder", "time_based",
            <<Cond("schedule", "daily"), Cond("time", "09:00")>>,
            << [type |-> "custom_function", function |-> "check_overdue_projects"] >>,
            TRUE, 1),
       WorkflowRule("payment_status_update", "status_change",
            <<Cond("new_status", DEPOSIT_PAID)>>,
            << [type |-> "update_status", target_status |-> IN_DESIGN, delay_hours |-> 0],
               [type |-> "send_notification", template |-> "design_start",
                recipients |-> <<"designer", "creator">>] >>,
            TRUE, 1) >>

\* the rules register_rule is called with after construction
RuleCatalog ==
    { WorkflowRule("design_urgent", "status_change",
            <<Cond("new_status", IN_DESIGN)>>,
            << [type |-> "custom_function", function |-> "check_overdue_projects"],
               [type |-> "send_notification", template |-> "design_start",
                recipients |-> <<"designer">>] >>,
            TRUE, 10),
      WorkflowRule("design_followup", "status_change",
            <<Cond("new_status", IN_DESIGN)>>,
            << [type |-> "custom_function", function |-> "no_such_function"] >>,
            TRUE, 5),
      WorkflowRule("design_malformed", "status_change",
            <<Cond("new_status", IN_DESIGN), Cond("old_status", DEPOSIT_PAID)>>,
            << [type |-> "send_notification", template |-> "design_start",
                recipients |-> <<"creator">>],
               [type |-> "send_email"],
               [type |-> "create_task", task_template |-> "design_workflow"] >>,
            TRUE, 5),
      WorkflowRule("design_disabled", "status_change",
            <<Cond("new_status", IN_DESIGN)>>,
            << [type |-> "create_task", task_template |-> "design_workflow"] >>,
            FALSE, 10),
      WorkflowRule("auto_quote", "status_change",
            <<Cond("new_status", PENDING_QUOTE)>>,
            << [type |-> "update_status", target_status |-> QUOTED, delay_hours |-> 0] >>,
            TRUE, 1),
      WorkflowRule("delayed_design_start", "status_change",
            <<Cond("new_status", DEPOSIT_PAID)>>,
            << [type |-> "update_status", target_status |-> IN_DESIGN, delay_hours |-> 24],
               [type |-> "send_notification", template |-> "design_start",
                recipients |-> <<"designer">>] >>,
            TRUE, 1),
      WorkflowRule("manual_analysis", "manual",
            <<>>,
            << [type |-> "run_ai_analysis", analysis_type |-> "design_requirements"] >>,
            TRUE, 1) }

\* trigger_data: the keys the engine reads; an absent key reads as None
TriggerData(pid, old, new, operator) ==
    [project_id |-> pid, old_status |-> old, new_status |-> new, operator_id |-> operator]

TriggerEvent(type, data) == [type |-> type, data |-> data]

NoEvent == TriggerEvent("none", TriggerData(NoId, NoStatus, NoStatus, NoId))

\* the trigger events of the model; project 2 does not exist
Events ==
    { TriggerEvent("status_change", TriggerData(1, DEPOSIT_PAID, IN_DESIGN, 1)),
      TriggerEvent("status_change", TriggerData(1, PENDING_APPROVAL, IN_DESIGN, 2)),
      TriggerEvent("status_change", TriggerData(1, PENDING_QUOTE, QUOTED, 1)),
      TriggerEvent("status_change", TriggerData(1, CONFIRMED, DEPOSIT_PAID, 1)),
      TriggerEvent("status_change", TriggerData(1, NoStatus, PENDING_QUOTE, 2)),
      TriggerEvent("status_change", TriggerData(2, NoStatus, PENDING_QUOTE, 2)),
      TriggerEvent("status_change", TriggerData(NoId, NoStatus, PENDING_QUOTE, 2)),
      TriggerEvent("status_change", TriggerData(NoId, NoStatus, NoStatus, NoId)),
      TriggerEvent("time_based", TriggerData(NoId, NoStatus, NoStatus, NoId)),
      TriggerEvent("manual", TriggerData(1, NoStatus, NoStatus, 3)),
      TriggerEvent("data_condition", TriggerData(1, NoStatus, IN_DESIGN, NoId)) }

\* _check_trigger_conditions: the loop over conditions.items(), from entry i
RECURSIVE MutIgnoreDesignerFrom(_, _, _)
MutIgnoreDesignerFrom(conditions, data, i) ==
    IF i > Len(conditions) THEN TRUE
    ELSE LET key == conditions[i].key
             expected == conditions[i].value
         IN  IF key = "new_status" /\ data.new_status # expected THEN FALSE
             ELSE IF key = "old_status" /\ data.old_status # expected THEN FALSE
             ELSE MutIgnoreDesignerFrom(conditions, data, i + 1)

RECURSIVE CheckConditionsFrom(_, _, _)
CheckConditionsFrom(conditions, data, i) ==
    IF i > Len(conditions) THEN TRUE
    ELSE LET key == conditions[i].key
             expected == conditions[i].value
         IN  IF key = "new_status"
             THEN IF data.new_status # expected THEN FALSE
                  ELSE CheckConditionsFrom(conditions, data, i + 1)
             ELSE IF key = "old_status"
             THEN IF data.old_status # expected THEN FALSE
                  ELSE CheckConditionsFrom(conditions, data, i + 1)
             ELSE IF key = "designer_not_assigned"
             THEN IF /\ expected = "True"
                     /\ data.project_id # NoId
                     /\ data.project_id \in ProjectIds
                     /\ projects[data.project_id].designer_id # NoId
                  THEN FALSE
                  ELSE CheckConditionsFrom(conditions, data, i + 1)
             ELSE CheckConditionsFrom(conditions, data, i + 1)

MutUnknownKeyFails(conditions, data) ==
    /\ \A k \in DOMAIN conditions :
          conditions[k].key \in {"new_status", "old_status", "designer_not_assigned"}
    /\ CheckConditionsFrom(conditions, data, 1)

CheckTriggerConditions(conditions, data) == CheckConditionsFrom(conditions, data, 1)

\* a rule object of self.rules, with its place in the list (its identity)
Registered(i) == [idx |-> i, rule |-> rules[i]]

\* _find_matching_rules: the loop over self.rules, from entry i
MutMatchesIgnoringActive(rule, event) ==
    /\ rule.trigger_type = event.type
    /\ CheckTriggerConditions(rule.trigger_conditions, event.data)

MutMatchesIgnoringConditions(rule, event) ==
    /\ rule.is_active
    /\ rule.trigger_type = event.type

Matches(rule, event) ==
    /\ rule.is_active
    /\ rule.trigger_type = event.type
    /\ CheckTriggerConditions(rule.trigger_conditions, event.data)

RECURSIVE FindMatchingFrom(_, _)
FindMatchingFrom(event, i) ==
    IF i > Len(rules) THEN <<>>
    ELSE (IF Matches(rules[i], event) THEN <<Registered(i)>> ELSE <<>>)
         \o FindMatchingFrom(event, i + 1)

FindMatchingRules(event) == FindMatchingFrom(event, 1)

\* list.sort(key = priority, reverse = True): stable, ties keep their order
RECURSIVE MutInsertTiesFirst(_, _)
MutInsertTiesFirst(sorted, m) ==
    IF sorted = <<>> THEN <<m>>
    ELSE IF Head(sorted).rule.priority > m.rule.priority
         THEN <<Head(sorted)>> \o MutInsertTiesFirst(Tail(sorted), m)
         ELSE <<m>> \o sorted

RECURSIVE InsertByPriority(_, _)
InsertByPriority(sorted, m) ==
    IF sorted = <<>> THEN <<m>>
    ELSE IF Head(sorted).rule.priority >= m.rule.priority
         THEN <<Head(sorted)>> \o InsertByPriority(Tail(sorted), m)
         ELSE <<m>> \o sorted

RECURSIVE SortFrom(_, _, _)
SortFrom(list, i, sorted) ==
    IF i > Len(list) THEN sorted
    ELSE SortFrom(list, i + 1, InsertByPriority(sorted, list[i]))

SortByPriority(list) == SortFrom(list, 1, <<>>)

\* register_rule
MutRegisterPartial(rule) ==
    /\ Len(rules) < Len(DefaultRules) + MaxRegistered
    /\ rules' = Append(rules, [rule EXCEPT !.actions = <<>>])

RegisterRule(rule) ==
    /\ Len(rules) < Len(DefaultRules) + MaxRegistered
    /\ rules' = Append(rules, rule)

Register ==
    /\ \E rule \in RuleCatalog : RegisterRule(rule)
    /\ UNCHANGED <<projects, statusLog, notified, now, result, sess, tasks, disp, jobs, assign, sent, sched, chat>>

----------------------------------------------------------------------------
(* WorkflowEngine: action handlers *)

\* WorkflowContext(trigger_data = ..., timestamp = ...): project defaults to None
WorkflowContext(data) == [trigger_data |-> data, project |-> NoId]

\* what a handler call leaves behind: its return value or the exception it
\* raised, and the tables as it committed them
Returned(value, P, L, T) ==
    [raised |-> FALSE, value |-> value, projects |-> P, statusLog |-> L, tasks |-> T]

Raised(error) ==
    [raised |-> TRUE, value |-> [error |-> error],
     projects |-> projects, statusLog |-> statusLog, tasks |-> tasks]

GatewayOutcomes == {"ok", "fail"}

\* the recipients loop of _handle_send_notification, from entry i
RECURSIVE TargetUsersFrom(_, _, _)
TargetUsersFrom(recipients, context, i) ==
    IF i > Len(recipients) THEN <<>>
    ELSE LET kind == recipients[i]
             row  == projects[context.project]
             user == IF context.project = NoId THEN NoId
                     ELSE IF kind \in {"assigned_designer", "designer"} THEN row.designer_id
                     ELSE IF kind = "creator" THEN row.creator_id
                     ELSE NoId
         IN  (IF user # NoId /\ user \in {u.id : u \in Users} THEN <<user>> ELSE <<>>)
             \o TargetUsersFrom(recipients, context, i + 1)

\* _handle_send_notification: resolves the recipients and counts them; every
\* modelled user has a wechat_userid
HandleSendNotification(action, context) ==
    LET target_users == TargetUsersFrom(action.recipients, context, 1)
    IN  Returned([template |-> action.template,
                  notifications_sent |-> Len(target_users),
                  recipients |-> target_users],
                 projects, statusLog, tasks)

\* the loop over target_users of _handle_send_notification: it adds one to the
\* count and calls neither the notification service nor _send_wechat_message
SendNotificationSends(action, context) == NoFanout

\* _handle_update_status; with delay_hours > 0 the call stays in
\* asyncio.sleep(delay_hours * 3600) and the write follows in the same call
EngineHandleUpdateStatus(action, context, t) ==
    IF context.project = NoId
    THEN Returned([error |-> "No project in context"], projects, statusLog, tasks)
    ELSE LET pid == context.project
             old == projects[pid].status
         IN  Returned([old_status |-> old, new_status |-> action.target_status,
                       project_id |-> pid],
                      [projects EXCEPT ![pid].status = action.target_status,
                                       ![pid].updated_at = t],
                      Append(statusLog,
                             ProjectStatusLog(pid, 0, old, action.target_status,
                                              "workflow_auto_update")),
                      tasks)

\* the design_workflow template of _handle_create_task: title and priority
DesignTasks ==
    <<[title |-> "requirements_analysis", priority |-> "high"],
      [title |-> "concept",               priority |-> "normal"],
      [title |-> "first_draft",           priority |-> "normal"],
      [title |-> "customer_review",       priority |-> "normal"]>>

\* Task(title, project_id, creator_id, assignee_id, status, priority)
Task(title, pid, creator, assignee, status, priority) ==
    [title |-> title, project_id |-> pid, creator_id |-> creator,
     assignee_id |-> assignee, status |-> status, priority |-> priority]

\* a create_task that first clears the project's tasks, then writes the template's
MutCreateTaskReplaces(action, context) ==
    IF context.project = NoId
    THEN Returned([error |-> "No project in context"], projects, statusLog, tasks)
    ELSE LET pid == context.project
             template == IF action.task_template = "design_workflow"
                         THEN DesignTasks ELSE <<>>
             created == [i \in 1 .. Len(template) |->
                            Task(template[i].title, pid, 0, projects[pid].designer_id,
                                 "pending", template[i].priority)]
         IN  Returned([template |-> action.task_template,
                       tasks_created |-> Len(created)],
                      projects, statusLog,
                      SelectSeq(tasks, LAMBDA row : row.project_id # pid) \o created)

\* _handle_create_task: one db.add per entry of the template, creator_id 0 (the
\* system), the project's designer as assignee; nothing is read or deleted
HandleCreateTask(action, context) ==
    IF context.project = NoId
    THEN Returned([error |-> "No project in context"], projects, statusLog, tasks)
    ELSE LET pid == context.project
             template == IF action.task_template = "design_workflow"
                         THEN DesignTasks ELSE <<>>
             created == [i \in 1 .. Len(template) |->
                            Task(template[i].title, pid, 0, projects[pid].designer_id,
                                 "pending", template[i].priority)]
         IN  Returned([template |-> action.task_template,
                       tasks_created |-> Len(created)],
                      projects, statusLog, tasks \o created)

\* the designer_workload count of _handle_assign_user
Workload(uid) ==
    Cardinality({p \in ProjectIds :
                    /\ projects[p].designer_id = uid
                    /\ projects[p].status \in {IN_DESIGN, PENDING_APPROVAL}})

\* db.query(User).filter(User.role == DESIGNER).all(): the designers of the
\* users table, as the query lists them
DesignerListing ==
    SelectSeq(<<1, 2, 3>>, LAMBDA id : UserById(id).role = "designer")

\* min(designer_workload.keys(), key = ...): the loop of min over the keys in
\* insertion order, keeping the first key that has the least count
RECURSIVE MutLastMinFrom(_, _, _, _)
MutLastMinFrom(listing, workload, i, best) ==
    IF i > Len(listing) THEN best
    ELSE IF workload[listing[i]] <= workload[best]
         THEN MutLastMinFrom(listing, workload, i + 1, listing[i])
         ELSE MutLastMinFrom(listing, workload, i + 1, best)

RECURSIVE MinFrom(_, _, _, _)
MinFrom(listing, workload, i, best) ==
    IF i > Len(listing) THEN best
    ELSE IF workload[listing[i]] < workload[best]
         THEN MinFrom(listing, workload, i + 1, listing[i])
         ELSE MinFrom(listing, workload, i + 1, best)

LeastWorkload(listing, workload) == MinFrom(listing, workload, 2, listing[1])

\* _handle_assign_user; listing and workload are what its two queries return
HandleAssignUser(action, context, t, listing, workload) ==
    IF context.project = NoId
    THEN Returned([error |-> "No project in context"], projects, statusLog, tasks)
    ELSE IF /\ action.role = "designer"
            /\ action.strategy = "least_workload"
            /\ listing # <<>>
         THEN LET best == LeastWorkload(listing, workload)
              IN  Returned([assigned_user_id |-> best, workload |-> workload[best]],
                           [projects EXCEPT ![context.project].designer_id = best,
                                            ![context.project].updated_at = t],
                           statusLog, tasks)
         ELSE Returned([error |-> "No suitable user found"],
                       projects, statusLog, tasks)

\* a run_ai_analysis that lets the failure of the analysis call out
MutRunAiAnalysisRaises(action, context, outcome) ==
    IF context.project = NoId
    THEN Returned([error |-> "No project in context"], projects, statusLog, tasks)
    ELSE IF action.analysis_type = "design_requirements"
         THEN IF outcome = "ok"
              THEN Returned([analysis_type |-> action.analysis_type, success |-> TRUE],
                            projects, statusLog, tasks)
              ELSE Raised("GatewayFailure")
         ELSE Returned([error |-> "Unknown analysis type"], projects, statusLog, tasks)

\* _handle_run_ai_analysis: a failure of the analysis call is caught inside
HandleRunAiAnalysis(action, context, outcome) ==
    IF context.project = NoId
    THEN Returned([error |-> "No project in context"], projects, statusLog, tasks)
    ELSE IF action.analysis_type = "design_requirements"
         THEN IF outcome = "ok"
              THEN Returned([analysis_type |-> action.analysis_type, success |-> TRUE],
                            projects, statusLog, tasks)
              ELSE Returned([analysis_type |-> action.analysis_type,
                             error |-> "GatewayFailure", success |-> FALSE],
                            projects, statusLog, tasks)
         ELSE Returned([error |-> "Unknown analysis type"], projects, statusLog, tasks)

\* _handle_custom_function: send_overdue_alerts finds no overdue project (no
\* project has a deadline) or its query fails
HandleCustomFunction(action, context, outcome) ==
    IF action.function = "check_overdue_projects"
    THEN IF outcome = "ok"
         THEN Returned([function |-> action.function, executed |-> TRUE],
                       projects, statusLog, tasks)
         ELSE Raised("GatewayFailure")
    ELSE Returned([error |-> "Unknown function"], projects, statusLog, tasks)

\* self.action_handlers[action_type](action, context)
Handler(action, context, t, outcome) ==
    CASE action.type = "send_notification" -> HandleSendNotification(action, context)
      [] action.type = "update_status"     -> EngineHandleUpdateStatus(action, context, t)
      [] action.type = "create_task"       -> HandleCreateTask(action, context)
      [] action.type = "assign_user"       ->
            HandleAssignUser(action, context, t, DesignerListing,
                             [d \in {u.id : u \in Users} |-> Workload(d)])
      [] action.type = "run_ai_analysis"   -> HandleRunAiAnalysis(action, context, outcome)
      [] action.type = "custom_function"   -> HandleCustomFunction(action, context, outcome)

----------------------------------------------------------------------------
(* WorkflowEngine.trigger_workflow, one step per awaited handler *)

\* no call in flight; the fields keep what the last call returned
IdleDispatch ==
    [pc |-> "idle", event |-> NoEvent, context |-> WorkflowContext(NoEvent.data),
     registered |-> 0, matching |-> <<>>, ri |-> 1, ai |-> 1,
     current |-> <<>>, results |-> <<>>, trace |-> <<>>]

\* one entry of the execution record: what happened to which rule object
Step(what, idx, ai) == [what |-> what, idx |-> idx, ai |-> ai]

\* lines 94-104: context, matching rules, sort
TriggerWorkflow(event) ==
    /\ disp.pc = "idle"
    /\ disp' = [pc |-> "rule", event |-> event,
                context |-> WorkflowContext(event.data),
                registered |-> Len(rules),
                matching |-> SortByPriority(FindMatchingRules(event)),
                ri |-> 1, ai |-> 1, current |-> <<>>, results |-> <<>>,
                trace |-> <<>>]

\* the except clause of the loop over matching_rules
MutUnguardedRule(d, m, error) ==
    [d EXCEPT !.pc = "raised"]

MutRuleExceptionAsSuccess(d, m, error) ==
    [d EXCEPT !.results = Append(@, [rule_id |-> m.rule.id, success |-> TRUE,
                                      result |-> [actions_executed |-> Len(d.current),
                                                  results |-> d.current]]),
              !.ri = @ + 1, !.ai = 1, !.current = <<>>,
              !.trace = Append(@, Step("raise", m.idx, d.ai))]

OnRuleException(d, m, error) ==
    [d EXCEPT !.results = Append(@, [rule_id |-> m.rule.id, success |-> FALSE,
                                      error |-> error]),
              !.ri = @ + 1, !.ai = 1, !.current = <<>>,
              !.trace = Append(@, Step("raise", m.idx, d.ai))]

\* _execute_rule: ActionType(action["type"]) and the handler lookup
StartAction ==
    /\ disp.pc = "rule"
    /\ disp.ri <= Len(disp.matching)
    /\ LET m == disp.matching[disp.ri]
       IN  /\ disp.ai <= Len(m.rule.actions)
           /\ IF m.rule.actions[disp.ai].type \notin ActionType
              THEN disp' = OnRuleException(disp, m, "ValueError")
              ELSE disp' = [disp EXCEPT !.pc = "action",
                                        !.trace = Append(@, Step("start", m.idx, disp.ai))]
    /\ UNCHANGED <<projects, statusLog, notified, now, result, sess, rules, tasks, jobs, assign, sent, sched, chat>>

\* _execute_rule: results.append(result) / results.append({"error": str(e)}),
\* then the next action of the loop
MutAbortRuleOnActionError(d, m, h) ==
    IF h.raised
    THEN [d EXCEPT !.pc = "rule",
                   !.results = Append(@, [rule_id |-> m.rule.id, success |-> FALSE,
                                          error |-> h.value.error]),
                   !.ri = @ + 1, !.ai = 1, !.current = <<>>,
                   !.trace = Append(@, Step("raise", m.idx, d.ai))]
    ELSE [d EXCEPT !.pc = "rule",
                   !.current = Append(@, h.value),
                   !.ai = @ + 1,
                   !.trace = Append(@, Step("end", m.idx, d.ai))]

AfterAction(d, m, h) ==
    [d EXCEPT !.pc = "rule",
              !.current = Append(@, h.value),
              !.ai = @ + 1,
              !.trace = Append(@, Step("end", m.idx, d.ai))]

\* _execute_rule: the awaited handler returns or raises
EndAction ==
    /\ disp.pc = "action"
    /\ \E outcome \in GatewayOutcomes :
          LET m == disp.matching[disp.ri]
              h == Handler(m.rule.actions[disp.ai], disp.context, now, outcome)
          IN  /\ projects' = h.projects
              /\ statusLog' = h.statusLog
              /\ tasks' = h.tasks
              /\ disp' = AfterAction(disp, m, h)
    /\ UNCHANGED <<notified, now, result, sess, rules, jobs, assign, sent, sched, chat>>

\* the return of _execute_rule and the success record
EndRule ==
    /\ disp.pc = "rule"
    /\ disp.ri <= Len(disp.matching)
    /\ LET m == disp.matching[disp.ri]
       IN  /\ disp.ai > Len(m.rule.actions)
           /\ disp' = [disp EXCEPT
                          !.results = Append(@, [rule_id |-> m.rule.id, success |-> TRUE,
                                                 result |-> [actions_executed |-> Len(disp.current),
                                                             results |-> disp.current]]),
                          !.ri = @ + 1, !.ai = 1, !.current = <<>>,
                          !.trace = Append(@, Step("done", m.idx, disp.ai))]
    /\ UNCHANGED <<projects, statusLog, notified, now, result, sess, rules, tasks, jobs, assign, sent, sched, chat>>

\* return results
ReturnResults ==
    /\ disp.pc = "rule"
    /\ disp.ri > Len(disp.matching)
    /\ disp' = [disp EXCEPT !.pc = "idle"]
    /\ UNCHANGED <<projects, statusLog, notified, now, result, sess, rules, tasks, jobs, assign, sent, sched, chat>>

Dispatch ==
    /\ \E event \in Events : TriggerWorkflow(event)
    /\ UNCHANGED <<projects, statusLog, notified, now, result, sess, rules, tasks, jobs, assign, sent, sched, chat>>

----------------------------------------------------------------------------
(* _handle_assign_user called with a project in its context, for any users *)
(* table and any counts of active projects                                 *)

\* the ids of the designers a users table may hold
CandidateIds == 1 .. MaxCandidates

\* the results the designers query may return: each designer once, any order
Listings ==
    {l \in UNION {[1 .. n -> CandidateIds] : n \in 0 .. MaxCandidates} :
        \A i, j \in DOMAIN l : l[i] = l[j] => i = j}

\* WorkflowContext(trigger_data = {}, project = project)
ContextOf(pid) == [trigger_data |-> NoEvent.data, project |-> pid]

\* no call made
NoAssign ==
    [pc |-> "none", listing |-> <<>>, workload |-> <<>>, role |-> "none",
     project_id |-> NoId, value |-> [error |-> "none"]]

\* the calls to make: what the two queries will return, the action's role and
\* the project in the context
AssignCalls ==
    {[pc |-> "call", listing |-> listing, workload |-> workload, role |-> role,
      project_id |-> pid, value |-> [error |-> "none"]] :
        listing \in Listings, workload \in [CandidateIds -> 0 .. MaxWorkload],
        role \in {"designer", "sales"}, pid \in ProjectIds}

AssignUserCall ==
    /\ assign.pc = "call"
    /\ LET action == [type |-> "assign_user", role |-> assign.role,
                      strategy |-> "least_workload"]
           h == HandleAssignUser(action, ContextOf(assign.project_id), now,
                                 assign.listing, assign.workload)
       IN  /\ projects' = h.projects
           /\ statusLog' = h.statusLog
           /\ tasks' = h.tasks
           /\ assign' = [assign EXCEPT !.pc = "done", !.value = h.value]
    /\ UNCHANGED <<notified, now, result, sess, rules, disp, jobs, sent, sched, chat>>

----------------------------------------------------------------------------
(* The action handlers called with a project in the context, as            *)
(* _process_auto_task_creation calls _handle_create_task: each step is one *)
(* call of one handler, run to its return                                  *)

MaxExisting == 2
MaxTasks == 10

\* the rows the tasks API may have added to the project before the call
ExistingRows ==
    {Task("manual", 1, 2, a, st, "normal") :
        a \in {NoId, 1}, st \in {"pending", "completed"}}

ExistingTasks == UNION {[1 .. n -> ExistingRows] : n \in 0 .. MaxExisting}

\* what a handler call returned or raised, with the action and the outcome of
\* the gateway it was given
HandlerOutcome(op, action, pid, gateway, h) ==
    [op |-> op, action |-> action, project_id |-> pid, gateway |-> gateway,
     raised |-> h.raised, value |-> h.value]

CallHandler(op, action, pid, gateway, h, s) ==
    /\ projects' = h.projects
    /\ statusLog' = h.statusLog
    /\ tasks' = h.tasks
    /\ sent' = s
    /\ result' = HandlerOutcome(op, action, pid, gateway, h)

TaskTemplates == {"design_workflow", "production_workflow"}

CreateTaskCall ==
    \E pid \in ProjectIds, template \in TaskTemplates :
        LET action == [type |-> "create_task", task_template |-> template]
            h == HandleCreateTask(action, ContextOf(pid))
        IN  /\ Len(h.tasks) <= MaxTasks
            /\ CallHandler("create_task", action, pid, "ok", h, NoFanout)
            /\ UNCHANGED <<notified, now, sess, rules, disp, jobs, assign, sched, chat>>

RecipientLists ==
    {<<"assigned_designer">>, <<"creator">>, <<"assigned_designer", "creator">>,
     <<"sales">>}

SendNotificationCall ==
    \E pid \in ProjectIds, recipients \in RecipientLists :
        LET action == [type |-> "send_notification", template |-> "design_started",
                       recipients |-> recipients]
            h == HandleSendNotification(action, ContextOf(pid))
        IN  /\ CallHandler("send_notification", action, pid, "ok", h,
                           SendNotificationSends(action, ContextOf(pid)))
            /\ UNCHANGED <<notified, now, sess, rules, disp, jobs, assign, sched, chat>>

AnalysisTypes == {"design_requirements", "cost_estimate"}

RunAiAnalysisCall ==
    \E pid \in ProjectIds, type \in AnalysisTypes, gateway \in GatewayOutcomes :
        LET action == [type |-> "run_ai_analysis", analysis_type |-> type]
            h == HandleRunAiAnalysis(action, ContextOf(pid), gateway)
        IN  /\ CallHandler("run_ai_analysis", action, pid, gateway, h, NoFanout)
            /\ UNCHANGED <<notified, now, sess, rules, disp, jobs, assign, sched, chat>>

FunctionKeys == {"check_overdue_projects", "no_such_function"}

CustomFunctionCall ==
    \E pid \in ProjectIds, key \in FunctionKeys, gateway \in GatewayOutcomes :
        LET action == [type |-> "custom_function", function |-> key]
            h == HandleCustomFunction(action, ContextOf(pid), gateway)
        IN  /\ CallHandler("custom_function", action, pid, gateway, h, NoFanout)
            /\ UNCHANGED <<notified, now, sess, rules, disp, jobs, assign, sched, chat>>

----------------------------------------------------------------------------
(* TaskScheduler (app/tasks/scheduler.py) over APScheduler's AsyncIOScheduler *)
(* with a MemoryJobStore. The clock counts half hours from a Monday 00:00.    *)
(* The scheduler's timer wakes it at the next run time of its store, so the   *)
(* clock passes a run time only after the jobs due then were submitted.       *)

TicksPerHour == 2
TicksPerDay == 48
TicksPerWeek == 336

MaxTime == 4
MaxAdds == 2
MaxStarts == 1
MaxHorizon == 100

\* CronTrigger(hour, minute, day_of_week), minute 0 or 30
CronTrigger(hour, minute, day_of_week) ==
    [kind |-> "cron", at |-> hour * TicksPerHour + minute \div 30,
     day_of_week |-> day_of_week, every |-> 0, run_date |-> NoTime]

\* IntervalTrigger(minutes, hours)
IntervalTrigger(minutes, hours) ==
    [kind |-> "interval", at |-> 0, day_of_week |-> "any",
     every |-> hours * TicksPerHour + minutes \div 30, run_date |-> NoTime]

\* DateTrigger(run_date)
DateTrigger(run_date) ==
    [kind |-> "date", at |-> 0, day_of_week |-> "any", every |-> 0,
     run_date |-> run_date]

\* no further run
NoRun == -1

\* the fields of a cron trigger match the time u
MatchesCron(trigger, u) ==
    /\ u % TicksPerDay = trigger.at
    /\ trigger.day_of_week = "mon" => (u \div TicksPerDay) % 7 = 0

\* a cron trigger whose day_of_week is left out fires on Mondays only
MutNextFireTime(trigger, t, fired) ==
    CASE trigger.kind = "cron" ->
            CHOOSE u \in (t + 1) .. (t + TicksPerWeek) :
                /\ u % TicksPerDay = trigger.at /\ (u \div TicksPerDay) % 7 = 0
                /\ \A v \in (t + 1) .. (u - 1) :
                      ~(v % TicksPerDay = trigger.at /\ (v \div TicksPerDay) % 7 = 0)
      [] trigger.kind = "interval" -> t + trigger.every
      [] OTHER -> IF fired THEN NoRun ELSE trigger.run_date

\* trigger.get_next_fire_time: the next run after the time t, which is the time
\* the job was added at or the run time just processed
NextFireTime(trigger, t, fired) ==
    CASE trigger.kind = "cron" ->
            CHOOSE u \in (t + 1) .. (t + TicksPerWeek) :
                /\ MatchesCron(trigger, u)
                /\ \A v \in (t + 1) .. (u - 1) : ~MatchesCron(trigger, v)
      [] trigger.kind = "interval" -> t + trigger.every
      [] OTHER -> IF fired THEN NoRun ELSE trigger.run_date

\* the jobs of _register_default_jobs, in the order they are added
DefaultJobs ==
    <<[id |-> "daily_morning_reminders", type |-> "cron",
       function |-> "_daily_morning_reminders", trigger |-> CronTrigger(9, 0, "any")],
      [id |-> "hourly_urgent_check", type |-> "interval",
       function |-> "_hourly_urgent_check", trigger |-> IntervalTrigger(0, 1)],
      [id |-> "daily_workflow_processing", type |-> "cron",
       function |-> "_daily_workflow_processing", trigger |-> CronTrigger(20, 0, "any")],
      [id |-> "weekly_report_generation", type |-> "cron",
       function |-> "_weekly_report_generation", trigger |-> CronTrigger(8, 30, "mon")],
      [id |-> "system_health_check", type |-> "interval",
       function |-> "_system_health_check", trigger |-> IntervalTrigger(30, 0)],
      [id |-> "daily_data_cleanup", type |-> "cron",
       function |-> "_daily_data_cleanup", trigger |-> CronTrigger(2, 0, "any")]>>

DefaultJobIds == {DefaultJobs[i].id : i \in DOMAIN DefaultJobs}

\* the times the process may be started at: Monday 08:00, Monday 19:00 and
\* Tuesday 01:00
StartTimes == {16, 38, 50}

\* schedule_custom_reminder: f"custom_reminder_{user_id}_{int(remind_at.timestamp())}"
CustomReminderId(user_id, remind_at) ==
    "custom_reminder_" \o ToString(user_id) \o "_" \o ToString(remind_at)

\* the users reminders are scheduled for, and the times they may be set to
ReminderUsers == {1}

RemindTimes == 17 .. 60

OneTimeIds == {CustomReminderId(u, t) : u \in ReminderUsers, t \in RemindTimes}

JobIds == DefaultJobIds \cup OneTimeIds

\* no session: _workflow_engine is None
NoSession == 0

\* TaskScheduler.__init__: is_running False, no job; fires and last are the
\* runs of the job functions so far, by job id; late is how many seconds after
\* the half hour the scheduler processed its due jobs, batch what it did with
\* them then, inst the executor's count of running instances by job id, and
\* failed the jobs whose last finished run failed. With it, the module state the
\* job functions work on: the sessions get_db_context has opened (numbered in
\* the order they were opened) and closed, and _workflow_engine with the
\* session it was built on and the number of WorkflowEngine objects built
NoScheduler ==
    [running |-> FALSE, origin |-> 0, time |-> 0, store |-> {}, adds |-> 0,
     starts |-> 0,
     fires |-> [id \in JobIds |-> 0], last |-> [id \in JobIds |-> NoRun],
     sessions |-> 0, closed |-> {},
     engine |-> [db |-> NoSession, inits |-> 0],
     late |-> 0, wakes |-> 0, batch |-> {},
     inst |-> [id \in JobIds |-> 0], failed |-> {}]

\* a get_workflow_engine that builds an engine on every call
MutEnginePerCall(engine, db) == [db |-> db, inits |-> engine.inits + 1]

\* get_workflow_engine(db): WorkflowEngine(db) if _workflow_engine is None
GetWorkflowEngine(engine, db) ==
    IF engine.inits = 0 THEN [db |-> db, inits |-> 1] ELSE engine

Ids(table) == {j.id : j \in table}

\* the ids remove_job is called with: a reminder get_jobs lists, two of the
\* default jobs, and an id that was never added
RemovableIds(table) ==
    (Ids(table) \cap OneTimeIds)
        \cup {"hourly_urgent_check", "daily_morning_reminders", "no_such_job"}

\* scheduler.add_job(func, trigger, id = job_id, replace_existing = True)
AddJob(store, id, function, trigger, t) ==
    {j \in store : j.id # id}
        \cup {[id |-> id, function |-> function, trigger |-> trigger,
               next_run_time |-> NextFireTime(trigger, t, FALSE)]}

\* self.registered_jobs[job_id] = {...}
RegisterJob(table, id, type, function, run_date) ==
    {j \in table : j.id # id}
        \cup {[id |-> id, type |-> type, function |-> function, run_date |-> run_date]}

\* _register_default_jobs: the six jobs from entry i on
RECURSIVE AddDefaultJobsFrom(_, _, _)
AddDefaultJobsFrom(I, i, t) ==
    IF i > Len(DefaultJobs) THEN I
    ELSE LET d == DefaultJobs[i]
         IN  AddDefaultJobsFrom(
                [store |-> AddJob(I.store, d.id, d.function, d.trigger, t),
                 jobs  |-> RegisterJob(I.jobs, d.id, d.type, d.function, NoTime)],
                i + 1, t)

\* start(), at most MaxStarts times
Start ==
    /\ ~sched.running
    /\ sched.starts < MaxStarts
    /\ LET I == AddDefaultJobsFrom([store |-> sched.store, jobs |-> jobs], 1, sched.time)
       IN  /\ sched' = [sched EXCEPT !.running = TRUE, !.store = I.store,
                                     !.starts = @ + 1]
           /\ jobs' = I.jobs
    /\ result' = [op |-> "start", job_id |-> "none"]
    /\ UNCHANGED <<projects, statusLog, notified, now, sess, rules, tasks, disp,
                   assign, sent, chat>>

\* stop(): scheduler.shutdown(wait = False)
Stop ==
    /\ sched.running
    /\ sched' = [sched EXCEPT !.running = FALSE]
    /\ result' = [op |-> "stop", job_id |-> "none"]
    /\ UNCHANGED <<projects, statusLog, notified, now, sess, rules, tasks, disp,
                   jobs, assign, sent, chat>>

\* schedule_custom_reminder(user_id, message, remind_at), called while the
\* scheduler runs for a time half an hour or an hour ahead:
\* add_one_time_job(_send_custom_reminder, job_id, remind_at)
AddOneTimeJob ==
    /\ sched.running
    /\ sched.adds < MaxAdds
    /\ \E user_id \in ReminderUsers, remind_at \in {sched.time + 1, sched.time + 2} :
          LET id == CustomReminderId(user_id, remind_at)
          IN  /\ remind_at \in RemindTimes
              /\ sched' = [sched EXCEPT
                              !.store = AddJob(@, id, "_send_custom_reminder",
                                               DateTrigger(remind_at), sched.time),
                              !.adds = @ + 1]
              /\ jobs' = RegisterJob(jobs, id, "one_time", "_send_custom_reminder",
                                     remind_at)
              /\ result' = [op |-> "add_one_time_job", job_id |-> id]
    /\ UNCHANGED <<projects, statusLog, notified, now, sess, rules, tasks, disp,
                   assign, sent, chat>>

\* remove_job(job_id): scheduler.remove_job raises JobLookupError for an id
\* its store does not hold, and the except branch leaves registered_jobs alone
RemoveJob ==
    /\ \E id \in RemovableIds(jobs) :
          /\ IF id \in Ids(sched.store)
             THEN /\ sched' = [sched EXCEPT !.store = {j \in @ : j.id # id}]
                  /\ jobs' = {j \in jobs : j.id # id}
             ELSE UNCHANGED <<sched, jobs>>
          /\ result' = [op |-> "remove_job", job_id |-> id]
    /\ UNCHANGED <<projects, statusLog, notified, now, sess, rules, tasks, disp,
                   assign, sent, chat>>

\* get_jobs(): one entry per key of registered_jobs, "is_active": True
GetJobs == {[job_id |-> j.id, type |-> j.type, is_active |-> TRUE] : j \in jobs}

\* a task creation that gives every project in IN_DESIGN the design tasks
RECURSIVE MutAutoTaskCreationAlways(_, _)
MutAutoTaskCreationAlways(T, p) ==
    IF p \notin ProjectIds THEN T
    ELSE IF projects[p].status = IN_DESIGN
         THEN MutAutoTaskCreationAlways(
                T \o [i \in 1 .. Len(DesignTasks) |->
                        Task(DesignTasks[i].title, p, 0, projects[p].designer_id,
                             "pending", DesignTasks[i].priority)], p + 1)
         ELSE MutAutoTaskCreationAlways(T, p + 1)

\* _process_auto_task_creation: the projects in IN_DESIGN without a task get the
\* design_workflow tasks; the loop from project p on
RECURSIVE AutoTaskCreationFrom(_, _)
AutoTaskCreationFrom(T, p) ==
    IF p \notin ProjectIds THEN T
    ELSE IF /\ projects[p].status = IN_DESIGN
            /\ \A i \in DOMAIN T : T[i].project_id # p
         THEN AutoTaskCreationFrom(
                T \o [i \in 1 .. Len(DesignTasks) |->
                        Task(DesignTasks[i].title, p, 0, projects[p].designer_id,
                             "pending", DesignTasks[i].priority)], p + 1)
         ELSE AutoTaskCreationFrom(T, p + 1)

\* _send_personal_summaries: the users of a project in design, approval or
\* production get their summary
SummaryRecipients ==
    UNION {GetProjectStakeholders(projects[p], NoId) :
             p \in {q \in ProjectIds :
                      projects[q].status \in {IN_DESIGN, PENDING_APPROVAL, IN_PRODUCTION}}}

\* what the job function writes and sends when it runs; no project of the model
\* has a deadline or a payment due, so the other reminders find nothing, and no
\* job function calls trigger_workflow. Every job function works in a
\* "with get_db_context() as db" of its own (session db); used is the session
\* its queries and writes go through
RunJobFunction(function, db) ==
    CASE function = "_daily_workflow_processing" ->
            LET engine == GetWorkflowEngine(sched.engine, db)
            IN  [tasks |-> AutoTaskCreationFrom(tasks, 1), sent |-> NoFanout,
                 engine |-> engine, used |-> engine.db,
                 rules |-> IF engine.inits > sched.engine.inits
                           THEN DefaultRules ELSE rules]
      [] function = "_daily_morning_reminders" ->
            [tasks |-> tasks,
             sent |-> [to |-> SummaryRecipients, failed |-> {},
                       calls |-> Cardinality(SummaryRecipients), text |-> "summary"],
             engine |-> sched.engine, used |-> db, rules |-> rules]
      [] function = "_send_custom_reminder" ->
            [tasks |-> tasks,
             sent |-> [to |-> {1}, failed |-> {}, calls |-> 1, text |-> "reminder"],
             engine |-> sched.engine, used |-> db, rules |-> rules]
      [] OTHER -> [tasks |-> tasks, sent |-> NoFanout,
                   engine |-> sched.engine, used |-> db, rules |-> rules]

\* _process_jobs for one due job: the run is submitted, the next run time is
\* computed, and a job without one is removed from the store
Fire ==
    /\ sched.running
    /\ \E j \in sched.store :
          /\ j.next_run_time = sched.time
          /\ LET next == NextFireTime(j.trigger, sched.time, TRUE)
                 db == sched.sessions + 1
                 run == RunJobFunction(j.function, db)
             IN  /\ sched' = [sched EXCEPT
                        !.store = IF next = NoRun THEN @ \ {j}
                                  ELSE (@ \ {j}) \cup {[j EXCEPT !.next_run_time = next]},
                        !.fires[j.id] = @ + 1,
                        !.last[j.id] = sched.time,
                        !.sessions = db,
                        !.closed = @ \cup {db},
                        !.engine = run.engine]
                 /\ Len(run.tasks) <= MaxTasks
                 /\ tasks' = run.tasks
                 /\ sent' = run.sent
                 /\ rules' = run.rules
                 /\ result' = [op |-> "fire", job_id |-> j.id, opened |-> db,
                               used |-> run.used]
    /\ UNCHANGED <<projects, statusLog, notified, now, sess, disp, jobs, assign, chat>>

\* the jobs whose run time is the present time
Due == {j \in sched.store : j.next_run_time = sched.time}

\* the timer has nothing to submit before the clock moves on; the model looks at
\* the first limit half hours after the process started
CanTick(limit) ==
    /\ sched.running
    /\ Due = {}
    /\ sched.time < sched.origin + limit

\* half an hour passes
Advance ==
    /\ sched' = [sched EXCEPT !.time = @ + 1]
    /\ result' = [op |-> "tick", job_id |-> "none"]
    /\ UNCHANGED <<projects, statusLog, notified, now, sess, rules, tasks, disp,
                   jobs, assign, sent, chat>>

Tick == CanTick(MaxTime) /\ Advance

LongTick == CanTick(MaxHorizon) /\ Advance

----------------------------------------------------------------------------
(* The scheduler's pass over its due jobs (_process_jobs) and the executor's  *)
(* runs, with the job_defaults of TaskScheduler.__init__: the pass may come   *)
(* late, and a job function runs until it returns.                            *)

SecondsPerTick == 1800

\* job_defaults: 'coalesce': False, 'max_instances': 3, 'misfire_grace_time': 30
Coalesce == FALSE
MaxInstances == 3
MisfireGraceTime == 30

MaxWakes == 4

\* how long after the earliest run time of the store the pass may come: on
\* time, 30 and 31 seconds late, an hour late, an hour and 45 seconds late
Delays ==
    {[ticks |-> 0, secs |-> 0], [ticks |-> 0, secs |-> 30], [ticks |-> 0, secs |-> 31],
     [ticks |-> 2, secs |-> 0], [ticks |-> 2, secs |-> 45]}

\* job._get_run_times(now): the run times from next_run_time r up to now, which
\* is late seconds after the half hour tick
RECURSIVE RunTimesFrom(_, _, _)
RunTimesFrom(trigger, r, tick) ==
    IF r = NoRun \/ r > tick THEN <<>>
    ELSE <<r>> \o RunTimesFrom(trigger, NextFireTime(trigger, r, TRUE), tick)

\* run_times[-1:] if run_times and job.coalesce else run_times
Coalesced(run_times) ==
    IF Coalesce /\ run_times # <<>> THEN <<run_times[Len(run_times)]>> ELSE run_times

\* a run_job without misfire_grace_time
MutNoGraceTime(r, tick, late) == TRUE

\* run_job: the run time is missed if now - run_time > misfire_grace_time
WithinGrace(r, tick, late) ==
    (tick - r) * SecondsPerTick + late <= MisfireGraceTime

\* a submit_job that does not count the instances
MutSubmitUnbounded(instances) == TRUE

\* submit_job: MaxInstancesReachedError when the job has max_instances running
CanSubmit(instances) == instances < MaxInstances

\* _process_jobs for the due job j: its run times are submitted unless the job
\* has its instances running, the job function is called for the run times
\* within the grace time, and the job gets its next run time or leaves the store
ProcessJob(s, j) ==
    LET run_times == Coalesced(RunTimesFrom(j.trigger, j.next_run_time, s.time))
        submitted == CanSubmit(s.inst[j.id])
        ran   == IF submitted
                 THEN SelectSeq(run_times, LAMBDA r : WithinGrace(r, s.time, s.late))
                 ELSE <<>>
        next  == NextFireTime(j.trigger, run_times[Len(run_times)], TRUE)
    IN  [s EXCEPT
            !.store = IF next = NoRun THEN @ \ {j}
                      ELSE (@ \ {j}) \cup {[j EXCEPT !.next_run_time = next]},
            !.inst[j.id] = IF ran # <<>> THEN @ + 1 ELSE @,
            !.fires[j.id] = @ + Len(ran),
            !.last[j.id] = IF ran # <<>> THEN s.time ELSE @,
            !.batch = @ \cup {[id |-> j.id, run_times |-> run_times, ran |-> ran,
                               submitted |-> submitted]}]

\* the loop of _process_jobs over the due jobs D
RECURSIVE ProcessDue(_, _)
ProcessDue(s, D) ==
    IF D = {} THEN s
    ELSE LET j == CHOOSE x \in D : TRUE
         IN  ProcessDue(ProcessJob(s, j), D \ {j})

\* the earliest run time of the store
EarliestRun(store) ==
    CHOOSE t \in {j.next_run_time : j \in store} :
        \A j \in store : t <= j.next_run_time

\* the scheduler wakes for the earliest run time of its store, on time or late,
\* and processes the jobs due by then
Wake ==
    /\ sched.running
    /\ sched.wakes < MaxWakes
    /\ sched.store # {}
    /\ \E d \in Delays :
          LET tick == EarliestRun(sched.store) + d.ticks
              due  == {j \in sched.store : j.next_run_time <= tick}
          IN  sched' = ProcessDue([sched EXCEPT !.time = tick, !.late = d.secs,
                                                !.wakes = @ + 1, !.batch = {}], due)
    /\ result' = [op |-> "wake", job_id |-> "none", outcome |-> "none"]
    /\ UNCHANGED <<projects, statusLog, notified, now, sess, rules, tasks, disp,
                   jobs, assign, sent, chat>>

\* a job function that fails takes its job out of scheduler and job table
MutFailureUnregisters(s, id, outcome) ==
    [s EXCEPT !.inst[id] = @ - 1,
              !.failed = IF outcome = "fail" THEN @ \cup {id} ELSE @ \ {id},
              !.store = IF outcome = "fail" THEN {j \in @ : j.id # id} ELSE @]

\* the job function returns: every one of them catches its exceptions, prints and
\* logs them; the executor releases the instance
AfterRun(s, id, outcome) ==
    [s EXCEPT !.inst[id] = @ - 1,
              !.failed = IF outcome = "fail" THEN @ \cup {id} ELSE @ \ {id}]

\* the function the job table names for the id
FunctionOf(id) == (CHOOSE j \in jobs : j.id = id).function

\* a running job function comes to its end, with or without an exception in
\* its try block; what it wrote before an exception is rolled back
Finish ==
    /\ \E id \in JobIds, outcome \in GatewayOutcomes :
          /\ sched.inst[id] > 0
          /\ LET db  == sched.sessions + 1
                 run == RunJobFunction(FunctionOf(id), db)
                 s   == AfterRun(sched, id, outcome)
             IN  /\ sched' = [s EXCEPT !.sessions = db, !.closed = @ \cup {db},
                                       !.engine = run.engine]
                 /\ rules' = run.rules
                 /\ IF outcome = "ok"
                    THEN /\ Len(run.tasks) <= MaxTasks
                         /\ tasks' = run.tasks
                         /\ sent' = run.sent
                    ELSE /\ tasks' = tasks
                         /\ sent' = NoFanout
                 /\ result' = [op |-> "finish", job_id |-> id, outcome |-> outcome]
    /\ UNCHANGED <<projects, statusLog, notified, now, sess, disp, jobs, assign, chat>>

----------------------------------------------------------------------------
(* MessageHandler (app/wechat/handlers.py): the project creations a chat user *)
(* has still to confirm. The handlers are coroutines of one event loop: a     *)
(* handler gives way only at an await that suspends, which in these handlers  *)
(* is the call of the AI service; _create_project_in_db awaits nothing.       *)

MaxMessages == 2

\* the users that write to the bot, by wechat_userid
ChatUsers == {1, 2}

\* no entry under the user's key
NoEntry == 0

\* MessageHandler.__init__: pending_projects = {}; extracting are the calls of
\* handle_text_project_creation that await the AI service, created the projects
\* _create_project_in_db has committed, each with the entry it was made from
NoChat ==
    [pending |-> [u \in ChatUsers |-> NoEntry], extracting |-> {}, created |-> <<>>,
     messages |-> 0, op |-> "none", user |-> NoId, reply |-> "none"]

\* a confirm that leaves the entry in pending_projects
MutConfirmKeepsPending(c, u, db, formatted) ==
    IF c.pending[u] = NoEntry
    THEN [c EXCEPT !.op = "confirm", !.user = u, !.reply = "nothing_pending"]
    ELSE IF db = "ok"
         THEN [c EXCEPT !.created = Append(@, [creator_id |-> u, entry |-> c.pending[u],
                                               status |-> PENDING_QUOTE]),
                        !.op = "confirm", !.user = u,
                        !.reply = IF formatted THEN "created" ELSE "confirm_failed"]
         ELSE [c EXCEPT !.op = "confirm", !.user = u, !.reply = "create_failed"]

\* handle_confirm_creation: db is the outcome of the commit of
\* _create_project_in_db, formatted whether the reply could read the committed
\* row; the entry is deleted before the reply is built
HandleConfirmCreation(c, u, db, formatted) ==
    IF c.pending[u] = NoEntry
    THEN [c EXCEPT !.op = "confirm", !.user = u, !.reply = "nothing_pending"]
    ELSE IF db = "ok"
         THEN [c EXCEPT !.created = Append(@, [creator_id |-> u, entry |-> c.pending[u],
                                               status |-> PENDING_QUOTE]),
                        !.pending[u] = NoEntry,
                        !.op = "confirm", !.user = u,
                        !.reply = IF formatted THEN "created" ELSE "confirm_failed"]
         ELSE [c EXCEPT !.op = "confirm", !.user = u, !.reply = "create_failed"]

\* handle_cancel_operation
HandleCancelOperation(c, u) ==
    IF c.pending[u] # NoEntry
    THEN [c EXCEPT !.pending[u] = NoEntry, !.op = "cancel", !.user = u,
                   !.reply = "cancelled"]
    ELSE [c EXCEPT !.op = "cancel", !.user = u, !.reply = "nothing_to_cancel"]

\* handle_text_project_creation up to its await: the message is numbered as it
\* comes in, and the number stands for what is extracted from it
TextProjectCreationBegin ==
    /\ chat.messages < MaxMessages
    /\ \E u \in ChatUsers :
          chat' = [chat EXCEPT !.messages = @ + 1,
                               !.extracting = @ \cup {[user |-> u, entry |-> chat.messages + 1]},
                               !.op = "text", !.user = u, !.reply = "none"]
    /\ UNCHANGED <<projects, statusLog, notified, now, result, sess, rules, tasks,
                   disp, jobs, assign, sent, sched>>

\* handle_text_project_creation after extract_project_info returned: an entry
\* with customer and project name is stored under the user's key
TextProjectCreationEnd ==
    /\ \E x \in chat.extracting, extracted \in {"complete", "incomplete", "error"} :
          chat' = [chat EXCEPT
                      !.extracting = @ \ {x},
                      !.pending[x.user] = IF extracted = "complete" THEN x.entry ELSE @,
                      !.op = "text", !.user = x.user,
                      !.reply = extracted]
    /\ UNCHANGED <<projects, statusLog, notified, now, result, sess, rules, tasks,
                   disp, jobs, assign, sent, sched>>

ConfirmCreation ==
    /\ \E u \in ChatUsers, db \in GatewayOutcomes, formatted \in BOOLEAN :
          chat' = HandleConfirmCreation(chat, u, db, formatted)
    /\ UNCHANGED <<projects, statusLog, notified, now, result, sess, rules, tasks,
                   disp, jobs, assign, sent, sched>>

CancelOperation ==
    /\ \E u \in ChatUsers : chat' = HandleCancelOperation(chat, u)
    /\ UNCHANGED <<projects, statusLog, notified, now, result, sess, rules, tasks,
                   disp, jobs, assign, sent, sched>>

----------------------------------------------------------------------------
(* Initial state: one project, created through the API by user 2 (status   *)
(* PENDING_QUOTE, one creation record), with or without user 1 as designer.*)

InitProjects ==
    /\ \E d \in {NoId, 1} : projects = [p \in ProjectIds |-> NewProject(2, d)]
    /\ statusLog = <<ProjectStatusLog(1, 2, NoStatus, PENDING_QUOTE, "created")>>
    /\ notified = 0
    /\ now = 1
    /\ result = NoOutcome

Init ==
    /\ InitProjects
    /\ sess = [r \in Requests |-> IdleSession]
    /\ rules = DefaultRules
    /\ tasks = <<>>
    /\ disp = IdleDispatch
    /\ jobs = {}
    /\ sent = NoFanout
    /\ sched = NoScheduler
    /\ chat = NoChat
    /\ assign = NoAssign

Next == Transition

Spec == Init /\ [][Next]_vars

\* every handler that writes a project's status, each call run to its end
NextWriters ==
    \/ Transition
    \/ ApiUpdateStatus
    \/ ApiUpdateProject
    \/ ApiDeleteProject
    \/ ChatUpdateStatus

SpecWriters == Init /\ [][NextWriters]_vars

\* two calls of smart_status_transition in flight at once
NextConcurrent == Begin \/ Commit

SpecConcurrent == Init /\ [][NextConcurrent]_vars

NextDispatch ==
    \/ Register
    \/ Dispatch
    \/ StartAction
    \/ EndAction
    \/ EndRule
    \/ ReturnResults

SpecDispatch == Init /\ [][NextDispatch]_vars

InitAssign ==
    /\ InitProjects
    /\ sess = [r \in Requests |-> IdleSession]
    /\ rules = DefaultRules
    /\ tasks = <<>>
    /\ disp = IdleDispatch
    /\ jobs = {}
    /\ sent = NoFanout
    /\ sched = NoScheduler
    /\ chat = NoChat
    /\ assign \in AssignCalls

NextAssign == AssignUserCall

SpecAssign == InitAssign /\ [][NextAssign]_vars

\* _handle_update_status called with a project in the context
EngineUpdateStatusCall ==
    \E pid \in ProjectIds, target \in RequestStatuses :
        LET action == [type |-> "update_status", target_status |-> target,
                       delay_hours |-> 0]
            h == EngineHandleUpdateStatus(action, ContextOf(pid), now)
        IN  /\ Len(statusLog) < MaxLog
            /\ CallHandler("update_status", action, pid, "ok", h, NoFanout)
            /\ UNCHANGED <<notified, now, sess, rules, disp, jobs, assign, sched, chat>>

\* every operation that writes project_status_logs, each call run to its end,
\* for the first MaxWrites writes
MaxWrites == 1

WithinWrites == now <= MaxWrites /\ Len(statusLog) <= MaxWrites

LogTransition == WithinWrites /\ Transition

LogApiUpdateStatus == WithinWrites /\ ApiUpdateStatus

LogApiUpdateProject == WithinWrites /\ ApiUpdateProject

LogApiDeleteProject == WithinWrites /\ ApiDeleteProject

LogChatUpdateStatus == WithinWrites /\ ChatUpdateStatus

LogEngineUpdateStatus == WithinWrites /\ EngineUpdateStatusCall

NextLog ==
    \/ LogTransition
    \/ LogApiUpdateStatus
    \/ LogApiUpdateProject
    \/ LogApiDeleteProject
    \/ LogChatUpdateStatus
    \/ LogEngineUpdateStatus

SpecLog == Init /\ [][NextLog]_vars

InitHandlers ==
    /\ InitProjects
    /\ sess = [r \in Requests |-> IdleSession]
    /\ rules = DefaultRules
    /\ tasks \in ExistingTasks
    /\ disp = IdleDispatch
    /\ jobs = {}
    /\ sent = NoFanout
    /\ sched = NoScheduler
    /\ chat = NoChat
    /\ assign = NoAssign

NextHandlers ==
    \/ CreateTaskCall
    \/ SendNotificationCall
    \/ RunAiAnalysisCall
    \/ CustomFunctionCall

SpecHandlers == InitHandlers /\ [][NextHandlers]_vars

\* the scheduler object is built when the process starts, at one of StartTimes;
\* the project is new or in design
InitScheduler ==
    /\ \E d \in {NoId, 1}, st \in {PENDING_QUOTE, IN_DESIGN} :
          projects = [p \in ProjectIds |-> [NewProject(2, d) EXCEPT !.status = st]]
    /\ statusLog = <<ProjectStatusLog(1, 2, NoStatus, PENDING_QUOTE, "created")>>
    /\ notified = 0
    /\ now = 1
    /\ result = NoOutcome
    /\ sess = [r \in Requests |-> IdleSession]
    /\ rules = <<>>
    /\ tasks = <<>>
    /\ disp = IdleDispatch
    /\ jobs = {}
    /\ sent = NoFanout
    /\ \E t \in StartTimes : sched = [NoScheduler EXCEPT !.origin = t, !.time = t]
    /\ chat = NoChat
    /\ assign = NoAssign

NextScheduler ==
    \/ Start
    \/ Stop
    \/ AddOneTimeJob
    \/ RemoveJob
    \/ Fire
    \/ Tick

SpecScheduler == InitScheduler /\ [][NextScheduler]_vars

\* the scheduler left to run with late passes and job functions that take
\* their time or fail
NextExecutor == Start \/ Wake \/ Finish

\* the process started on Monday 08:00 with its project in design
InitExecutor ==
    /\ InitScheduler
    /\ sched.origin = 16
    /\ projects[1].status = IN_DESIGN
    /\ projects[1].designer_id = 1

SpecExecutor == InitExecutor /\ [][NextExecutor]_vars

\* the messages of the chat users, each handler run from one await to the next
NextChat ==
    \/ TextProjectCreationBegin
    \/ TextProjectCreationEnd
    \/ ConfirmCreation
    \/ CancelOperation

SpecChat == Init /\ [][NextChat]_vars

\* the scheduler left to run, nothing added or removed: the event loop gives
\* the timer and the due jobs their turn
NextTiming == Start \/ Fire \/ LongTick

SpecTiming ==
    /\ InitScheduler
    /\ [][NextTiming]_vars
    /\ WF_vars(Fire)
    /\ WF_vars(LongTick)

----------------------------------------------------------------------------
(* The status machine: claims *)

\* the override capability as the claims word it: is_admin, or role admin
Privileged(uid) == UserById(uid).is_admin \/ UserById(uid).role = "admin"

\* the step is a call of smart_status_transition (every step of Spec is one call)
IsTransitionCall == result'.op = "smart_status_transition"

CallRow == projects[result'.project_id]

\* C1: a transition to a target outside TransitionTable[S], asked by an actor
\* without the override capability, fails with IllegalTransition and leaves the
\* project's row, the status log and the notification history as they were.
C1_IllegalTransitionRejected ==
    [][(/\ IsTransitionCall
        /\ ~Privileged(result'.actor)
        /\ result'.new_status \notin TransitionTable(CallRow.status))
       => (/\ ~result'.success
           /\ result'.error = "IllegalTransition"
           /\ projects' = projects
           /\ statusLog' = statusLog
           /\ notified' = notified)]_vars

C1_Witness ==
    /\ result.op = "smart_status_transition"
    /\ result.error = "IllegalTransition"
    /\ ~Privileged(result.actor)
    /\ result.old_status = IN_DESIGN
    /\ result.new_status = COMPLETED
    /\ projects[1].status = IN_DESIGN

\* C2: a transition to a target in TransitionTable[S] succeeds for any actor,
\* sets the status to the target and appends exactly one record with from = S,
\* to = T and the actor's id.
C2_LegalTransitionApplied ==
    [][(/\ IsTransitionCall
        /\ result'.new_status \in TransitionTable(CallRow.status))
       => (/\ result'.success
           /\ result'.old_status = CallRow.status
           /\ projects'[result'.project_id].status = result'.new_status
           /\ Len(statusLog') = Len(statusLog) + 1
           /\ LET rec == statusLog'[Len(statusLog')]
              IN  /\ rec.project_id = result'.project_id
                  /\ rec.from_status = CallRow.status
                  /\ rec.to_status = result'.new_status
                  /\ rec.user_id = result'.actor
           /\ SubSeq(statusLog', 1, Len(statusLog)) = statusLog)]_vars

C2_Witness ==
    /\ result.op = "smart_status_transition"
    /\ result.success
    /\ ~Privileged(result.actor)
    /\ result.old_status = QUOTED
    /\ result.new_status = CONFIRMED
    /\ projects[1].status = CONFIRMED
    /\ Len(statusLog) = 3
    /\ statusLog[3].from_status = QUOTED /\ statusLog[3].to_status = CONFIRMED

\* C3: an actor with the override capability moves a project from any status
\* to any status, connected in TransitionTable or not, and each such transition
\* appends exactly one record.
C3_OverrideTransitionApplied ==
    [][(/\ IsTransitionCall
        /\ Privileged(result'.actor))
       => (/\ result'.success
           /\ projects'[result'.project_id].status = result'.new_status
           /\ Len(statusLog') = Len(statusLog) + 1
           /\ LET rec == statusLog'[Len(statusLog')]
              IN  /\ rec.from_status = CallRow.status
                  /\ rec.to_status = result'.new_status
                  /\ rec.user_id = result'.actor
           /\ SubSeq(statusLog', 1, Len(statusLog)) = statusLog)]_vars

C3_Witness ==
    /\ result.op = "smart_status_transition"
    /\ result.success
    /\ result.actor = 2
    /\ result.old_status = ARCHIVED
    /\ result.new_status = IN_PRODUCTION
    /\ projects[1].status = IN_PRODUCTION
    /\ Len(statusLog) = 3

\* C4: a project's status changes only by a legal transition: every step that
\* changes it is a smart_status_transition call, to a target in TransitionTable
\* of the status before or by an actor with the override capability.
C4_StatusChangesOnlyByTransition ==
    [][\A pid \in ProjectIds :
          projects'[pid].status # projects[pid].status
          => (/\ result'.op = "smart_status_transition"
              /\ \/ projects'[pid].status \in TransitionTable(projects[pid].status)
                 \/ Privileged(result'.actor))]_vars

\* C6: once started_at, completed_at, deposit_paid or final_paid is set, a later
\* transition into IN_DESIGN, COMPLETED, DEPOSIT_PAID or PAID leaves the field
\* as it is and does not report the effect again.
C6_SideEffectsIdempotent ==
    [][(IsTransitionCall /\ result'.success)
       => LET before == CallRow
              after == projects'[result'.project_id]
              reported == {result'.side_effects[i] : i \in DOMAIN result'.side_effects}
          IN  /\ before.started_at # NoTime
                    => /\ after.started_at = before.started_at
                       /\ "set_started_at" \notin reported
              /\ before.completed_at # NoTime
                    => /\ after.completed_at = before.completed_at
                       /\ "set_completed_at" \notin reported
              /\ before.deposit_paid
                    => after.deposit_paid /\ "mark_deposit_paid" \notin reported
              /\ before.final_paid
                    => after.final_paid /\ "mark_final_paid" \notin reported]_vars

\* C5: concurrent transitions of one project are serialized: the call that
\* commits wrote over the status it validated against (no lost update), its
\* transition is legal from the status current at the write, and a timestamp
\* already committed is not set again.
C5_ConcurrentTransitionsSerialized ==
    [][\A r \in Requests :
          (sess[r].pc = "written" /\ sess'[r].pc = "idle")
          => LET before == projects[sess[r].project_id]
                 after == projects'[sess[r].project_id]
             IN  /\ sess[r].loaded.status = before.status
                 /\ \/ sess[r].new_status \in TransitionTable(before.status)
                    \/ Privileged(sess[r].operator)
                 /\ before.started_at # NoTime => after.started_at = before.started_at
                 /\ before.completed_at # NoTime
                        => after.completed_at = before.completed_at]_vars

----------------------------------------------------------------------------
(* The workflow engine: claims *)

\* C7: every successful status change raises one StatusChange trigger event
\* with the project id, old status, new status and actor, handed to the
\* dispatcher: the successful call leaves trigger_workflow called with it.
C7_StatusChangeRaisesEvent ==
    [][(IsTransitionCall /\ result'.success)
       => /\ disp' # disp
          /\ disp'.event = TriggerEvent("status_change",
                              TriggerData(result'.project_id, result'.old_status,
                                          result'.new_status, result'.actor))]_vars

\* the rule is selected for the event: active, same trigger type, and every
\* condition it declares agrees with the payload
Selected(rule, event) ==
    /\ rule.is_active
    /\ rule.trigger_type = event.type
    /\ \A k \in DOMAIN rule.trigger_conditions :
          LET c == rule.trigger_conditions[k]
          IN  /\ c.key = "new_status" => event.data.new_status = c.value
              /\ c.key = "old_status" => event.data.old_status = c.value
              /\ (c.key = "designer_not_assigned" /\ c.value = "True")
                    => ~ (/\ event.data.project_id \in ProjectIds
                          /\ projects[event.data.project_id].designer_id # NoId)

\* the rules registered when the call was made
RegisteredAtCall(d) == 1 .. d.registered

\* the call in flight returns in this step
IsDispatchReturn == disp.pc # "idle" /\ disp'.pc = "idle"

\* the rule objects the call has touched
Executed(d) == {d.trace[k].idx : k \in DOMAIN d.trace}

\* C8: a dispatch executes exactly the registered rules that are active, of the
\* event's trigger type and whose conditions match the payload: a rule on
\* new_status = IN_DESIGN runs for an IN_DESIGN event and not for a QUOTED one.
C8_ExactlyMatchingRulesRun ==
    [][IsDispatchReturn
       => Executed(disp') = {i \in RegisteredAtCall(disp') :
                                Selected(rules[i], disp'.event)}]_vars

C8_Witness ==
    /\ disp.pc = "idle"
    /\ disp.event.data.new_status = IN_DESIGN
    /\ \E i \in RegisteredAtCall(disp) :
          rules[i].id = "create_design_tasks" /\ i \in Executed(disp)
    /\ \E i \in RegisteredAtCall(disp) :
          rules[i].id = "design_disabled" /\ i \notin Executed(disp)
    /\ \E i \in RegisteredAtCall(disp) :
          rules[i].id = "design_malformed" /\ i \notin Executed(disp)

\* the rule object at place a of the registry runs before the one at place b
RunsBefore(a, b) ==
    \/ rules[a].priority > rules[b].priority
    \/ rules[a].priority = rules[b].priority /\ a < b

\* C9: within one dispatch the rules run one at a time in descending priority,
\* equal priorities in registration order, and every action of a rule has
\* ended before the first action of the next rule starts.
C9_RulesRunInPriorityOrder ==
    LET t == disp.trace
    IN  /\ \A k, l \in DOMAIN t :
              (k < l /\ t[k].idx # t[l].idx) => RunsBefore(t[k].idx, t[l].idx)
        /\ \A k \in DOMAIN t :
              /\ (t[k].what = "start" /\ k < Len(t))
                    => t[k + 1] = Step("end", t[k].idx, t[k].ai)
              /\ (k < Len(t) /\ t[k].idx # t[k + 1].idx)
                    => t[k].what \in {"done", "raise"}
              /\ t[k].what = "done"
                    => \A a \in DOMAIN rules[t[k].idx].actions :
                          \E j \in 1 .. (k - 1) : t[j] = Step("end", t[k].idx, a)

C9_Witness ==
    /\ disp.pc = "idle"
    /\ \E k, l \in DOMAIN disp.trace :
          /\ k < l
          /\ disp.trace[k].what = "done"
          /\ rules[disp.trace[k].idx].priority = 10
          /\ Len(rules[disp.trace[k].idx].actions) = 2
          /\ disp.trace[l].what = "start"
          /\ rules[disp.trace[l].idx].priority = 5

\* executing the rule raises: one of its actions has no ActionType
RuleRaises(rule) == \E a \in DOMAIN rule.actions : rule.actions[a].type \notin ActionType

\* the entries of the execution record that end a rule
RuleEnds(d) == SelectSeq(d.trace, LAMBDA s : s.what \in {"done", "raise"})

\* C10: a dispatch returns one record per matched rule, in execution order, and
\* does not raise: a rule whose execution raises is reported with success =
\* FALSE and the other matched rules are still executed and reported.
C10_OneRecordPerMatchedRule ==
    [][/\ disp'.pc \in {"idle", "rule", "action"}
       /\ IsDispatchReturn
          => LET ends == RuleEnds(disp')
                 matched == {i \in RegisteredAtCall(disp') :
                                Selected(rules[i], disp'.event)}
             IN  /\ Len(disp'.results) = Cardinality(matched)
                 /\ Len(ends) = Len(disp'.results)
                 /\ {ends[k].idx : k \in DOMAIN ends} = matched
                 /\ \A k \in DOMAIN ends :
                       /\ disp'.results[k].rule_id = rules[ends[k].idx].id
                       /\ disp'.results[k].success = ~ RuleRaises(rules[ends[k].idx])
                       /\ disp'.results[k].success = (ends[k].what = "done")]_vars

C10_Witness ==
    /\ disp.pc = "idle"
    /\ \E j, k, l \in DOMAIN disp.results :
          /\ j < k /\ k < l
          /\ disp.results[j].success
          /\ ~ disp.results[k].success
          /\ disp.results[l].success

\* the entry is the action's own: what its handler returns, or the error it
\* raised
OwnEntry(action, e) ==
    CASE action.type = "custom_function" /\ action.function = "check_overdue_projects" ->
            \/ DOMAIN e = {"function", "executed"} /\ e.function = action.function
            \/ DOMAIN e = {"error"} /\ e.error = "GatewayFailure"
      [] action.type = "send_notification" ->
            DOMAIN e = {"template", "recipients", "notifications_sent"}
               /\ e.template = action.template
      [] OTHER -> "error" \in DOMAIN e

\* C11: a rule's actions run strictly in list order, and an action that fails
\* does not abort the rule: the next action of the same rule follows, and the
\* failure is the failed action's own result entry.
C11_ActionsRunInOrderPastFailures ==
    [][/\ (disp.pc = "rule" /\ disp'.pc = "action")
          => disp.ai = Len(disp.current) + 1
       /\ (disp.pc = "action" /\ disp' # disp)
          => /\ disp'.pc = "rule"
             /\ disp'.ri = disp.ri
             /\ disp'.ai = disp.ai + 1
             /\ Len(disp'.current) = disp.ai
             /\ SubSeq(disp'.current, 1, disp.ai - 1) = disp.current
             /\ OwnEntry(disp.matching[disp.ri].rule.actions[disp.ai],
                         disp'.current[disp.ai])
       /\ (disp.pc = "rule" /\ Len(disp'.results) > Len(disp.results)
           /\ disp'.results[Len(disp'.results)].success)
          => disp'.results[Len(disp'.results)].result.actions_executed
                = Len(disp.matching[disp.ri].rule.actions)]_vars

C11_Witness ==
    /\ disp.pc = "idle"
    /\ \E k \in DOMAIN disp.results :
          /\ disp.results[k].rule_id = "design_urgent"
          /\ disp.results[k].success
          /\ disp.results[k].result.actions_executed = 2
          /\ DOMAIN disp.results[k].result.results[1] = {"error"}
          /\ disp.results[k].result.results[1].error = "GatewayFailure"
          /\ "template" \in DOMAIN disp.results[k].result.results[2]

\* the place of the first action of the rule that has no ActionType
FirstUnknown(rule) ==
    CHOOSE a \in DOMAIN rule.actions :
        /\ rule.actions[a].type \notin ActionType
        /\ \A b \in 1 .. (a - 1) : rule.actions[b].type \in ActionType

\* C12: an action of unknown type is fatal for its own rule only: that rule is
\* reported with success = FALSE and stops at that action, every other
\* matched rule of the dispatch runs all its actions and is reported normally.
C12_UnknownActionTypeFailsOwnRuleOnly ==
    [][IsDispatchReturn
       => LET ends == RuleEnds(disp')
              t == disp'.trace
          IN  /\ {ends[k].idx : k \in DOMAIN ends}
                    = {i \in RegisteredAtCall(disp') : Selected(rules[i], disp'.event)}
              /\ \A k \in DOMAIN ends :
                    LET rule == rules[ends[k].idx]
                        rec == disp'.results[k]
                        started == {t[j].ai : j \in {n \in DOMAIN t :
                                        t[n].idx = ends[k].idx /\ t[n].what = "start"}}
                    IN  IF RuleRaises(rule)
                        THEN /\ ~ rec.success
                             /\ "error" \in DOMAIN rec
                             /\ started = 1 .. (FirstUnknown(rule) - 1)
                        ELSE /\ rec.success
                             /\ rec.result.actions_executed = Len(rule.actions)
                             /\ started = DOMAIN rule.actions]_vars

C12_Witness ==
    /\ disp.pc = "idle"
    /\ \E k, l \in DOMAIN disp.results :
          /\ k < l
          /\ disp.results[k].rule_id = "design_malformed"
          /\ ~ disp.results[k].success
          /\ disp.results[l].rule_id = "create_design_tasks"
          /\ disp.results[l].success
          /\ disp.results[l].result.actions_executed = 2
    /\ \E j \in DOMAIN disp.trace :
          /\ disp.trace[j].what = "end"
          /\ rules[disp.trace[j].idx].id = "design_malformed"

\* the handler of an update_status action of the dispatch returns in this step
IsUpdateStatusEnd ==
    /\ disp.pc = "action"
    /\ disp' # disp
    /\ disp.matching[disp.ri].rule.actions[disp.ai].type = "update_status"

UpdateStatusAction == disp.matching[disp.ri].rule.actions[disp.ai]

\* C13: an update_status action changes the status through the status
\* machine: a target the transition table allows is applied with the
\* status-specific side effects and exactly one status record, and a refused
\* transition is the action's error with the project unchanged.
C13_UpdateStatusGoesThroughTransition ==
    [][(IsUpdateStatusEnd /\ disp.event.data.project_id \in ProjectIds)
       => LET pid == disp.event.data.project_id
              target == UpdateStatusAction.target_status
              before == projects[pid]
              after == projects'[pid]
              applied ==
                  /\ after.status = target
                  /\ target = IN_DESIGN => after.started_at # NoTime
                  /\ target = COMPLETED => after.completed_at # NoTime
                  /\ target = DEPOSIT_PAID => after.deposit_paid
                  /\ target = PAID => after.final_paid
                  /\ Len(statusLog') = Len(statusLog) + 1
                  /\ SubSeq(statusLog', 1, Len(statusLog)) = statusLog
                  /\ statusLog'[Len(statusLog')].project_id = pid
                  /\ statusLog'[Len(statusLog')].from_status = before.status
                  /\ statusLog'[Len(statusLog')].to_status = target
              refused ==
                  /\ after = before
                  /\ statusLog' = statusLog
                  /\ "error" \in DOMAIN disp'.current[disp.ai]
          IN  /\ applied \/ refused
              /\ target \in TransitionTable(before.status) => applied]_vars

\* C14: an update_status action with delay_hours > 0 schedules a one-time job
\* for now + delay_hours and returns at once: the step adds the job and
\* leaves the status as it is.
C14_DelayedUpdateScheduledAsJob ==
    [][(IsUpdateStatusEnd /\ UpdateStatusAction.delay_hours > 0)
       => /\ \E j \in jobs' :
                /\ j \notin jobs
                /\ j.type = "one_time"
                /\ j.run_date = now + UpdateStatusAction.delay_hours
          /\ projects' = projects]_vars

\* trigger_workflow is called in this step: the matching rules are found
IsDispatchCall == disp.pc = "idle" /\ disp'.pc = "rule"

\* the rule objects found to match
Matched(d) == {d.matching[k].idx : k \in DOMAIN d.matching}

\* the rule is active and of the event's trigger type
Eligible(rule, event) == rule.is_active /\ rule.trigger_type = event.type

\* every new_status / old_status condition equals the payload's field
StatusConditionsHold(conds, data) ==
    \A k \in DOMAIN conds :
        /\ conds[k].key = "new_status"
              => data.new_status # NoStatus /\ data.new_status = conds[k].value
        /\ conds[k].key = "old_status"
              => data.old_status # NoStatus /\ data.old_status = conds[k].value

\* C15: condition matching is the conjunction over the declared keys:
\* new_status and old_status must equal the payload's field (an absent field
\* does not match), a key the engine does not know is satisfied, and a rule
\* without conditions matches every event of its trigger type.
C15_ConditionsAreConjunction ==
    [][IsDispatchCall
       => \A i \in DOMAIN rules :
             Eligible(rules[i], disp'.event)
             => LET conds == rules[i].trigger_conditions
                    data == disp'.event.data
                IN  /\ (\A k \in DOMAIN conds : conds[k].key # "designer_not_assigned")
                          => (i \in Matched(disp') <=> StatusConditionsHold(conds, data))
                    /\ ~ StatusConditionsHold(conds, data) => i \notin Matched(disp')
                    /\ conds = <<>> => i \in Matched(disp')
                    /\ (\A k \in DOMAIN conds :
                           conds[k].key \notin {"new_status", "old_status",
                                                "designer_not_assigned"})
                          => i \in Matched(disp')]_vars

C15_Witness ==
    /\ disp.pc = "rule"
    /\ disp.event.type = "time_based"
    /\ disp.event.data.new_status = NoStatus
    /\ \E k \in DOMAIN disp.matching :
          /\ disp.matching[k].rule.id = "overdue_reminder"
          /\ \E c \in DOMAIN disp.matching[k].rule.trigger_conditions :
                disp.matching[k].rule.trigger_conditions[c].key = "schedule"

\* the rule declares designer_not_assigned = True
WantsNoDesigner(rule) ==
    \E k \in DOMAIN rule.trigger_conditions :
        /\ rule.trigger_conditions[k].key = "designer_not_assigned"
        /\ rule.trigger_conditions[k].value = "True"

\* C16: a rule with designer_not_assigned = True matches only if the project
\* the payload names has no designer in the stored state at dispatch time;
\* without a project_id, or for a project that does not exist, the condition
\* counts as satisfied.
C16_DesignerNotAssignedReadsProject ==
    [][IsDispatchCall
       => \A i \in DOMAIN rules :
             (/\ Eligible(rules[i], disp'.event)
              /\ WantsNoDesigner(rules[i])
              /\ StatusConditionsHold(rules[i].trigger_conditions, disp'.event.data))
             => LET pid == disp'.event.data.project_id
                IN  i \in Matched(disp')
                    <=> \/ pid = NoId
                        \/ pid \notin ProjectIds
                        \/ projects[pid].designer_id = NoId]_vars

C16_Witness ==
    /\ disp.pc = "rule"
    /\ disp.event.type = "status_change"
    /\ disp.event.data.new_status = PENDING_QUOTE
    /\ disp.event.data.project_id = 1
    /\ projects[1].designer_id # NoId
    /\ \E i \in RegisteredAtCall(disp) :
          rules[i].id = "auto_assign_designer" /\ i \notin Matched(disp)

\* C17: the registry holds at most one rule per id, a registration under an
\* id already present replacing the earlier rule, and a dispatch reports no
\* id twice.
C17_OneRulePerId ==
    /\ \A i, j \in DOMAIN rules : rules[i].id = rules[j].id => i = j
    /\ \A k, l \in DOMAIN disp.results :
          disp.results[k].rule_id = disp.results[l].rule_id => k = l

\* the rule object with its active flag set
WithActive(rule, flag) == [rule EXCEPT !.is_active = flag]

RuleDefinitions == {DefaultRules[i] : i \in DOMAIN DefaultRules} \cup RuleCatalog

\* C19: a dispatch running while rules are registered sees each rule whole,
\* with all fields of one registered definition, and the list of rules it
\* executes is fixed once matching is done: registrations made while its
\* rules run do not change it.
C19_DispatchSeesWholeRulesFixedList ==
    [][/\ \A i \in DOMAIN rules' : rules'[i] \in RuleDefinitions
       /\ \A k \in DOMAIN disp'.matching :
             /\ disp'.matching[k].rule \in RuleDefinitions
             /\ disp'.matching[k].rule = rules'[disp'.matching[k].idx]
       /\ disp.pc # "idle"
          => /\ disp'.matching = disp.matching
             /\ disp'.event = disp.event
       /\ IsDispatchReturn
          => /\ Executed(disp') = Matched(disp')
             /\ Executed(disp') \subseteq RegisteredAtCall(disp')]_vars

C19_Witness ==
    /\ disp.pc = "idle"
    /\ Executed(disp) # {}
    /\ \E i \in DOMAIN rules :
          /\ i \notin RegisteredAtCall(disp)
          /\ Selected(rules[i], disp.event)
          /\ i \notin Executed(disp)

\* the place of a designer in the listing
PlaceOf(listing, d) == CHOOSE i \in DOMAIN listing : listing[i] = d

----------------------------------------------------------------------------
(* The action handlers: claims *)

\* the step is one call of the handler op (every step of SpecHandlers is one call)
IsHandlerCall(op) == result'.op = op

\* the users a list of resolved recipients names
Resolved(value) == {value.recipients[i] : i \in DOMAIN value.recipients}

\* C21: a send_notification call makes one gateway send for each recipient it
\* resolved, and raises nothing.
C21_SendsOncePerResolvedRecipient ==
    [][IsHandlerCall("send_notification")
       => (/\ ~result'.raised
           /\ sent'.to = Resolved(result'.value)
           /\ sent'.calls = Len(result'.value.recipients))]_vars

\* the rows of the tasks table the engine wrote (creator_id 0) with this title
SystemRows(title) ==
    {i \in DOMAIN tasks : tasks[i].creator_id = 0 /\ tasks[i].title = title}

\* C22: a create_task call leaves every row the tasks table had as it was and
\* in its place, and with the design_workflow template it appends the four
\* rows of the template, whatever the project already has; with another template
\* it appends nothing.
C22_CreateTaskOnlyAdds ==
    [][IsHandlerCall("create_task")
       => (/\ ~result'.raised
           /\ Len(tasks') >= Len(tasks)
           /\ SubSeq(tasks', 1, Len(tasks)) = tasks
           /\ IF result'.action.task_template = "design_workflow"
              THEN /\ Len(tasks') = Len(tasks) + 4
                   /\ \A i \in 1 .. 4 :
                        LET row == tasks'[Len(tasks) + i]
                        IN  /\ row.title = DesignTasks[i].title
                            /\ row.project_id = result'.project_id
                            /\ row.creator_id = 0
                   /\ result'.value.tasks_created = 4
              ELSE tasks' = tasks)]_vars

\* two executions on a project that had a task: eight more rows, each title twice
C22_Witness ==
    /\ result.op = "create_task"
    /\ Len(tasks) = 9
    /\ tasks[1] \in ExistingRows
    /\ \A i \in 1 .. 4 : Cardinality(SystemRows(DesignTasks[i].title)) = 2

----------------------------------------------------------------------------
(* The status machine: failures of the fan-out, the log, the table *)

\* C24: a call of smart_status_transition that passes the legality check
\* succeeds, writes the status and appends its record, although the text
\* generation failed and whatever deliveries of the fan-out failed.
C24_TransitionSurvivesNotificationFailure ==
    [][(/\ IsTransitionCall
        /\ \/ result'.new_status \in TransitionTable(CallRow.status)
           \/ Privileged(result'.actor))
       => (/\ result'.success
           /\ projects'[result'.project_id].status = result'.new_status
           /\ statusLog' = Append(statusLog,
                  ProjectStatusLog(result'.project_id, result'.actor, CallRow.status,
                                   result'.new_status, "status_transition"))
           /\ sent'.text = "fallback"
           /\ sent'.calls = Cardinality(sent'.to))]_vars

\* a committed transition whose fan-out to two recipients failed for one of them
C24_Witness ==
    /\ result.op = "smart_status_transition"
    /\ result.success
    /\ sent.text = "fallback"
    /\ Cardinality(sent.to) = 2
    /\ Cardinality(sent.failed) = 1
    /\ projects[result.project_id].status = result.new_status
    /\ statusLog[Len(statusLog)].to_status = result.new_status

\* C25: every step of every operation leaves the records the log holds as they
\* are and where they are: the log only grows at its end.
C25_StatusLogAppendOnly ==
    [][/\ Len(statusLog') >= Len(statusLog)
       /\ SubSeq(statusLog', 1, Len(statusLog)) = statusLog]_vars

\* delete_project has appended its record after the creation record
C25_Witness ==
    /\ result.op = "delete_project"
    /\ result.success
    /\ Len(statusLog) = 2
    /\ statusLog[1] = ProjectStatusLog(1, 2, NoStatus, PENDING_QUOTE, "created")
    /\ statusLog[2].to_status = ARCHIVED

\* C26: a step that takes a project out of ARCHIVED is the call of an actor who
\* has the override capability.
C26_OrdinaryActorNeverLeavesArchived ==
    [][\A p \in ProjectIds :
          (projects[p].status = ARCHIVED /\ projects'[p].status # ARCHIVED)
          => Privileged(result'.actor)]_vars

----------------------------------------------------------------------------
(* The scheduler: claims *)

\* the step submits the run of a due job (every step of the scheduler's
\* specifications sets result to the operation it is)
IsFiring == result'.op = "fire"

\* the entry of the store for the job id
Stored(store, id) == CHOOSE j \in store : j.id = id

\* C27: the step that runs a due job calls trigger_workflow with an event of
\* type time_based.
C27_FiringDispatchesTimeBasedEvent ==
    [][IsFiring => (IsDispatchCall /\ disp'.event.type = "time_based")]_vars

\* C28: after the run of a one-time job, get_jobs reports no job of that id,
\* and the job has run no more often than it was added; after the run of a cron
\* or interval job, get_jobs still reports it and the store holds it with a run
\* time in the future.
C28_OneTimeJobLeavesJobTable ==
    [][IsFiring
       => LET id == result'.job_id
          IN  IF id \in OneTimeIds
              THEN /\ sched'.fires[id] <= sched'.adds
                   /\ \A row \in GetJobs' : row.job_id # id
              ELSE /\ \E row \in GetJobs' : row.job_id = id
                   /\ id \in Ids(sched'.store)
                   /\ Stored(sched'.store, id).next_run_time > sched'.time]_vars

\* C29: remove_job of a job that get_jobs reports takes it out of the job
\* table and of the store and leaves every other job's entry and next run
\* time as they were; the jobs that run are jobs of the store.
C29_RemovedJobIsGone ==
    [][/\ (result'.op = "remove_job" /\ result'.job_id \in Ids(jobs))
          => LET id == result'.job_id
             IN  /\ id \notin Ids(jobs')
                 /\ id \notin Ids(sched'.store)
                 /\ jobs' = {j \in jobs : j.id # id}
                 /\ sched'.store = {j \in sched.store : j.id # id}
       /\ IsFiring => result'.job_id \in Ids(sched.store)]_vars

\* a window of 25 hours, in half hours
WindowTicks == 25 * TicksPerHour

\* the last run of the job, or the start of the scheduler before its first run
LastRun(id) == IF sched.last[id] = NoRun THEN sched.origin ELSE sched.last[id]

\* C30: while the scheduler runs, less than 25 hours have passed since the last
\* run (or, before the first, since the start) of the 09:00 cron job and of the
\* hourly interval job: no window of 25 hours is without a run of either.
C30_DailyAndHourlyJobsFireWithinWindow ==
    sched.running
    => \A id \in {"daily_morning_reminders", "hourly_urgent_check"} :
          /\ id \in Ids(sched.store)
          /\ sched.time - LastRun(id) < WindowTicks

\* more than 25 hours after the start, both jobs have run
C30_Witness ==
    /\ sched.running
    /\ sched.time - sched.origin > WindowTicks
    /\ sched.fires["daily_morning_reminders"] >= 1
    /\ sched.fires["hourly_urgent_check"] >= 25
    /\ sched.last["hourly_urgent_check"] >= sched.time - TicksPerHour

\* C37: an entry of pending_projects leads to at most one created project: a
\* confirm that creates a project removes the entry, and a confirm of a user
\* without an entry (after a confirm, after a cancel) creates nothing and
\* answers that nothing is pending, whatever the order the handlers of the
\* messages run in.
C37_PendingEntryCreatesAtMostOnce ==
    [][/\ \A i, j \in DOMAIN chat'.created :
             chat'.created[i].entry = chat'.created[j].entry => i = j
       /\ (chat'.op = "confirm" /\ chat' # chat)
             => LET u == chat'.user
                IN  /\ chat.pending[u] = NoEntry
                       => /\ chat'.created = chat.created
                          /\ chat'.reply = "nothing_pending"
                    /\ Len(chat'.created) > Len(chat.created)
                       => /\ chat'.pending[u] = NoEntry
                          /\ chat'.created = Append(chat.created,
                                [creator_id |-> u, entry |-> chat.pending[u],
                                 status |-> PENDING_QUOTE])]_vars

C37_Witness ==
    /\ Len(chat.created) = 1
    /\ chat.op = "confirm"
    /\ chat.reply = "nothing_pending"
    /\ chat.user = chat.created[1].creator_id

\* C34: a dispatch whose payload names an existing project hands its handlers a
\* context that resolves to the project: after the dispatch of new_status =
\* DEPOSIT_PAID has run payment_status_update the project is IN_DESIGN, and
\* after the dispatch of new_status = IN_DESIGN has run create_design_tasks the
\* project has its design tasks.
C34_DispatchActsOnPayloadProject ==
    (/\ disp.pc = "idle"
     /\ disp.event.type = "status_change"
     /\ disp.event.data.project_id \in ProjectIds)
    => LET pid == disp.event.data.project_id
           Ran(id) == \E k \in DOMAIN disp.results :
                         disp.results[k].rule_id = id /\ disp.results[k].success
       IN  /\ (disp.event.data.new_status = DEPOSIT_PAID /\ Ran("payment_status_update"))
              => projects[pid].status = IN_DESIGN
           /\ (disp.event.data.new_status = IN_DESIGN /\ Ran("create_design_tasks"))
              => \A d \in DOMAIN DesignTasks :
                    \E i \in DOMAIN tasks :
                       tasks[i].project_id = pid /\ tasks[i].title = DesignTasks[d].title

\* the records of one project, in append order
ProjectLog(pid) == SelectSeq(statusLog, LAMBDA rec : rec.project_id = pid)

\* C35: the records of a project form a chain: the first has no from status,
\* each later one starts from the status the one before ended in, and the last
\* ends in the project's present status.
C35_StatusLogIsAChain ==
    \A pid \in ProjectIds :
        LET L == ProjectLog(pid)
        IN  L # <<>>
            => /\ L[1].from_status = NoStatus
               /\ \A i \in 2 .. Len(L) : L[i].from_status = L[i - 1].to_status
               /\ L[Len(L)].to_status = projects[pid].status

\* C36: a rule's record has success = FALSE only when an exception left the
\* per-action guard (an action type that is no ActionType); a handler that
\* raises or returns an error result adds its entry to the rule's list and no
\* record, and the rule's record has success = TRUE, counts every action of the
\* rule and carries the entries, the error among them.
C36_OnlyEscapedExceptionsFailTheRule ==
    [][/\ Len(disp'.results) > Len(disp.results)
          => LET rec  == disp'.results[Len(disp'.results)]
                 rule == disp.matching[disp.ri].rule
             IN  /\ disp.pc = "rule"
                 /\ rec.rule_id = rule.id
                 /\ ~rec.success
                    => /\ disp.ai <= Len(rule.actions)
                       /\ rule.actions[disp.ai].type \notin ActionType
                 /\ rec.success
                    => /\ DOMAIN rec = {"rule_id", "success", "result"}
                       /\ rec.result.actions_executed = Len(rule.actions)
                       /\ rec.result.results = disp.current
                       /\ Len(disp.current) = Len(rule.actions)
       /\ (disp.pc = "action" /\ disp' # disp)
          => /\ disp'.results = disp.results
             /\ Len(disp'.current) = Len(disp.current) + 1]_vars

C36_Witness ==
    /\ disp.pc = "idle"
    /\ \E k \in DOMAIN disp.results :
          /\ disp.results[k].success
          /\ \E a \in DOMAIN disp.results[k].result.results :
                LET e == disp.results[k].result.results[a]
                IN  DOMAIN e = {"error"} /\ e.error = "GatewayFailure"
    /\ \E k \in DOMAIN disp.results :
          /\ disp.results[k].success
          /\ \E a \in DOMAIN disp.results[k].result.results :
                LET e == disp.results[k].result.results[a]
                IN  "error" \in DOMAIN e /\ e.error = "No project in context"

\* the one-time jobs the scheduler holds
OneTimeJobs(store) == {j \in store : j.trigger.kind = "date"}

\* C40: every call of schedule_custom_reminder yields a one-time job of its
\* own, to be delivered at its remind_at, also when an earlier call was for the
\* same user and the same remind_at.
C40_EveryReminderHasItsOwnJob ==
    [][(result'.op = "add_one_time_job" /\ sched'.adds = sched.adds + 1)
          => Cardinality(OneTimeJobs(sched'.store))
                = Cardinality(OneTimeJobs(sched.store)) + 1]_vars

\* the run of _daily_workflow_processing
IsWorkflowRun == IsFiring /\ result'.job_id = "daily_workflow_processing"

\* the design tasks of project p, as _handle_create_task writes them
DesignTasksOf(p) ==
    [i \in 1 .. Len(DesignTasks) |->
        Task(DesignTasks[i].title, p, 0, projects[p].designer_id, "pending",
             DesignTasks[i].priority)]

\* C38: a run of the scheduled task creation adds the four design tasks for the
\* projects in IN_DESIGN that have no task and nothing else, after it no project
\* in IN_DESIGN is without a task, and a run that finds every such project with
\* tasks (a second run) adds nothing.
C38_AutoTaskCreationIsIdempotent ==
    [][IsWorkflowRun
       => LET need == {p \in ProjectIds :
                          /\ projects[p].status = IN_DESIGN
                          /\ \A i \in DOMAIN tasks : tasks[i].project_id # p}
          IN  /\ Len(tasks') = Len(tasks) + Len(DesignTasks) * Cardinality(need)
              /\ SubSeq(tasks', 1, Len(tasks)) = tasks
              /\ \A p \in need :
                    \E k \in 0 .. Len(tasks') - Len(DesignTasks) :
                       SubSeq(tasks', k + 1, k + Len(DesignTasks)) = DesignTasksOf(p)
              /\ \A p \in ProjectIds :
                    projects[p].status = IN_DESIGN
                       => \E i \in DOMAIN tasks' : tasks'[i].project_id = p
              /\ sched.fires["daily_workflow_processing"] >= 1 => tasks' = tasks]_vars

C38_Witness ==
    /\ sched.fires["daily_workflow_processing"] >= 2
    /\ result.op = "fire"
    /\ result.job_id = "daily_workflow_processing"
    /\ projects[1].status = IN_DESIGN
    /\ tasks = DesignTasksOf(1)

\* C39: get_workflow_engine builds one engine, on the session of its first
\* call, and every later call returns it: the default rules are registered
\* once, and every run of the scheduled workflows after the first works through
\* the first run's session, which was closed when that run's "with" ended, and
\* not through the session the run was given.
C39_EngineKeepsFirstSession ==
    [][/\ sched'.engine.inits <= 1
       /\ IsWorkflowRun
          => /\ sched'.engine.inits = 1
             /\ rules' = DefaultRules
             /\ sched'.engine.db = IF sched.engine.inits = 0 THEN result'.opened
                                   ELSE sched.engine.db
             /\ result'.used = sched'.engine.db
             /\ sched.fires["daily_workflow_processing"] >= 1
                => /\ result'.used # result'.opened
                   /\ result'.used \in sched.closed
                   /\ result'.opened \notin sched.closed]_vars

C39_Witness ==
    /\ sched.fires["daily_workflow_processing"] >= 2
    /\ result.op = "fire"
    /\ result.job_id = "daily_workflow_processing"
    /\ sched.engine.inits = 1
    /\ result.used = sched.engine.db
    /\ result.used # result.opened
    /\ result.used \in sched.closed

\* the pass of the scheduler over its due jobs
IsWake == result'.op = "wake"

C32_FailedHandlerKeepsJob ==
    [][/\ (result'.op = "finish" /\ result'.outcome = "fail")
          => /\ sched'.store = sched.store
             /\ jobs' = jobs
             /\ \E row \in GetJobs' : row.job_id = result'.job_id
       /\ IsWake
          => \A j \in sched.store :
                (/\ j.id \in sched.failed
                 /\ j.next_run_time = sched'.time
                 /\ sched'.late <= 30
                 /\ sched.inst[j.id] < 3)
                => /\ sched'.fires[j.id] = sched.fires[j.id] + 1
                   /\ sched'.last[j.id] = sched'.time
                   /\ j.trigger.kind # "date"
                      => /\ j.id \in Ids(sched'.store)
                         /\ Stored(sched'.store, j.id).next_run_time > sched'.time]_vars

\* the last pass ran a job whose last finished run had failed
C32_Witness ==
    /\ result.op = "wake"
    /\ \E b \in sched.batch :
          /\ b.ran # <<>>
          /\ b.id \in sched.failed
          /\ sched.inst[b.id] = 1
          /\ sched.fires[b.id] >= 2

\* C33: a job function that is still running does not keep the pass from
\* starting the other jobs that are due (nor the job itself, up to three
\* instances), and no job ever has more than three instances running; a job
\* that has three is not started and keeps its place in the store.
C33_RunningHandlerDoesNotBlockOthers ==
    [][/\ \A id \in JobIds : sched'.inst[id] <= 3
       /\ IsWake
          => \A j \in sched.store :
                (j.next_run_time = sched'.time /\ sched'.late <= 30)
                => IF sched.inst[j.id] < 3
                   THEN /\ sched'.inst[j.id] = sched.inst[j.id] + 1
                        /\ sched'.fires[j.id] = sched.fires[j.id] + 1
                   ELSE /\ sched'.inst[j.id] = 3
                        /\ sched'.fires[j.id] = sched.fires[j.id]
                        /\ j.id \in Ids(sched'.store)]_vars

\* the last pass started a job while a job started by an earlier pass was
\* running, and left out a job that had its three instances running
C33_Witness ==
    /\ result.op = "wake"
    /\ \E b \in sched.batch :
          /\ b.ran # <<>>
          /\ \E k \in JobIds :
                /\ k \notin {c.id : c \in sched.batch}
                /\ sched.inst[k] > 0
    /\ \E b \in sched.batch :
          /\ ~b.submitted
          /\ sched.inst[b.id] = 3

====
